---- MODULE Spec2Model ----
(***************************************************************************)
(* LSM303DLHC library for STM32: the streaming detectors of                *)
(* src/src/lsm303algo.c (motionLP, motionK, distortionHP, distortionLP,    *)
(* orientLP, orientK, inclineLP, detectFall).                              *)
(*                                                                         *)
(* Every C function keeps its state in function-local statics; here each   *)
(* function is an operator from (statics, arguments) to (statics', return  *)
(* value, line of the return statement taken), and one action per function *)
(* applies it to the variable that holds the statics.                      *)
(*                                                                         *)
(* Arithmetic.  The code computes in IEEE-754 binary32, round to nearest,  *)
(* ties to even.  The model keeps that arithmetic and shrinks the format:  *)
(* a float is an integer count of units of 2^-FRAC (the spacing of the     *)
(* subnormals) with at most PREC significant bits, magnitudes above FltMax *)
(* overflow to +-infinity, and NaN is a value of its own.  Every operation *)
(* rounds its exact result once, as the FPU does.  Signed zeros are not    *)
(* distinguished.                                                          *)
(***************************************************************************)
EXTENDS Integers, Sequences, FiniteSets, TLC

----------------------------------------------------------------------------
(* The float format of the model *)

FRAC == 4
PREC == 6

ONE == 2^FRAC
FltMax == 256 * ONE
PInf == 4 * FltMax
NInf == 0 - PInf
NaN == 8 * FltMax

Abs(n) == IF n < 0 THEN 0 - n ELSE n
Sgn(n) == IF n < 0 THEN 0 - 1 ELSE 1

IsNaN(a) == a = NaN
IsInf(a) == a = PInf \/ a = NInf
IsFinite(a) == ~IsNaN(a) /\ ~IsInf(a)

\* number of low bits a non-negative integer q must drop to fit PREC bits
RECURSIVE Excess(_)
Excess(q) == IF q < 2^PREC THEN 0 ELSE 1 + Excess(q \div 2)

\* a \div D rounded to the nearest integer, ties to even (a >= 0, D > 0)
RNE(a, D) ==
    LET q == a \div D
        r == a % D
    IN  IF 2 * r > D \/ (2 * r = D /\ q % 2 = 1) THEN q + 1 ELSE q

\* a / d rounded to a multiple of 2^s
Scaled(a, d, s) == RNE(a, d * 2^s) * 2^s

\* the magnitude m with the sign sg; above the largest float, the infinity
Signed(sg, m) == IF m > FltMax THEN sg * PInf ELSE sg * m

\* the float nearest to the exact value n / d units (d > 0)
Rnd(n, d) == Signed(Sgn(n), Scaled(Abs(n), d, Excess(Abs(n) \div d)))

FNeg(a) == IF IsNaN(a) THEN NaN ELSE 0 - a

FAbs(a) == IF IsNaN(a) THEN NaN ELSE Abs(a)

FAdd(a, b) ==
    IF IsNaN(a) \/ IsNaN(b) THEN NaN
    ELSE IF IsInf(a) THEN (IF IsInf(b) /\ b # a THEN NaN ELSE a)
    ELSE IF IsInf(b) THEN b
    ELSE Rnd(a + b, 1)

FSub(a, b) == FAdd(a, FNeg(b))

FMul(a, b) ==
    IF IsNaN(a) \/ IsNaN(b) THEN NaN
    ELSE IF IsInf(a) \/ IsInf(b)
         THEN (IF a = 0 \/ b = 0 THEN NaN ELSE Sgn(a) * Sgn(b) * PInf)
    ELSE Rnd(a * b, ONE)

FDiv(a, b) ==
    IF IsNaN(a) \/ IsNaN(b) THEN NaN
    ELSE IF IsInf(a) THEN (IF IsInf(b) THEN NaN ELSE Sgn(a) * Sgn(b) * PInf)
    ELSE IF IsInf(b) THEN 0
    ELSE IF b = 0 THEN (IF a = 0 THEN NaN ELSE Sgn(a) * PInf)
    ELSE Sgn(b) * Rnd(a * ONE, Abs(b))

\* comparisons: every comparison with a NaN is false
FLt(a, b) == ~IsNaN(a) /\ ~IsNaN(b) /\ a < b
\* a > b taken as a >= b
FGt_ge(a, b) == ~IsNaN(a) /\ ~IsNaN(b) /\ a >= b

FGt(a, b) == FLt(b, a)
FEq(a, b) == ~IsNaN(a) /\ ~IsNaN(b) /\ a = b

\* largest r with r * r <= n
RECURSIVE ISqrt(_)
ISqrt(n) ==
    IF n < 2 THEN n
    ELSE LET r == 2 * ISqrt(n \div 4)
         IN  IF (r + 1) * (r + 1) <= n THEN r + 1 ELSE r

\* of the floats q and q + st around the square root of n / ONE, the
\* nearer one: mid2 is twice their midpoint
SqrtPick(n, q, st, mid2) ==
    IF 4 * n > mid2 * mid2 \/ (4 * n = mid2 * mid2 /\ (q \div st) % 2 = 1)
    THEN q + st
    ELSE q

\* f is the integer square root of n, st the spacing of the floats at f
SqrtNear(n, f, st) == SqrtPick(n, (f \div st) * st, st, 2 * ((f \div st) * st) + st)

\* sqrtf: the float nearest to the square root
FSqrt(a) ==
    IF IsNaN(a) \/ a < 0 THEN NaN
    ELSE IF a = PInf THEN PInf
    ELSE SqrtNear(a * ONE, ISqrt(a * ONE), 2^Excess(ISqrt(a * ONE)))

----------------------------------------------------------------------------
(* libm and the constants of lsm303algo.c.  acosf and atan2f are modelled   *)
(* by their values, in 10^-4 rad, at multiples of 1/8, linearly            *)
(* interpolated between and then rounded to a float: exact at the ends of  *)
(* the domain, monotone, and with the special cases of C99 Annex F.        *)

\* 57.2958 rounded to a float
RAD2DEG == Rnd(572958 * ONE, 10000)

\* acos(k/8) for k = -8 .. 8
AcosTab == << 31416, 26362, 24189, 22459, 20944, 19552, 18235, 16961, 15708,
              14455, 13181, 11864, 10472, 8957, 7227, 5054, 0 >>

\* atan(k/8) for k = 0 .. 8
AtanTab == << 0, 1244, 2450, 3588, 4636, 5586, 6435, 7188, 7854 >>

acosf(c) ==
    IF IsNaN(c) \/ c > ONE \/ c < 0 - ONE THEN NaN
    ELSE LET pos == (c + ONE) * 8
             i == pos \div ONE
             fr == pos % ONE
             lo == AcosTab[i + 1]
             hi == IF i = 16 THEN lo ELSE AcosTab[i + 2]
         IN  Rnd(lo * ONE - (lo - hi) * fr, 10000)

\* atan of the ratio lo / hi, 0 <= lo <= hi, hi > 0, in units of 10^-4 / 128 rad
AtanRatio(lo, hi) ==
    LET t == RNE(lo * 1024, hi)
        i == t \div 128
        fr == t % 128
        a == AtanTab[i + 1]
        b == IF i = 8 THEN a ELSE AtanTab[i + 2]
    IN  a * 128 + (b - a) * fr

atan2f(y, x) ==
    IF IsNaN(y) \/ IsNaN(x) THEN NaN
    ELSE LET ay == Abs(y)
             ax == Abs(x)
             \* the angle of (|x|, |y|) in the first quadrant
             q1 == IF ay = 0 THEN 0
                   ELSE IF ax = 0 THEN 15708 * 128
                   ELSE IF IsInf(y) THEN (IF IsInf(x) THEN 7854 * 128 ELSE 15708 * 128)
                   ELSE IF IsInf(x) THEN 0
                   ELSE IF ay <= ax THEN AtanRatio(ay, ax)
                   ELSE 15708 * 128 - AtanRatio(ax, ay)
             q2 == IF x < 0 THEN 31416 * 128 - q1 ELSE q1
         IN  Sgn(y) * Rnd(q2 * ONE, 10000 * 128)

----------------------------------------------------------------------------
(* lsm303algo.h / lsm303algo.c *)

CNTSETUP == 32

STAGE_INIT == 0
STAGE_WEIGHLESSNESS == 1
STAGE_FALL == 2

\* uint8_t increment
Inc8(n) == (n + 1) % 256

\* if (setup < CNTSETUP), written setup < CNTSETUP - 1
Warming_short(setup) == setup < CNTSETUP - 1

\* if (setup < CNTSETUP), written setup <= CNTSETUP
Warming_le(setup) == setup <= CNTSETUP

\* if (setup < CNTSETUP): the detector is still accumulating
Warming(setup) == setup < CNTSETUP

\* the decimation test written smpl++ <= sample
Skip_le(smpl, sample) == smpl <= sample

\* if (smpl++ < sample): the test made on the value before the increment
Skip(smpl, sample) == smpl < sample

\* alpha * s + (1.0F - alpha) * f
LowPass(alpha, s, f) == FAdd(FMul(alpha, s), FMul(FSub(ONE, alpha), f))

\* sqrtf(a * a + b * b + c * c)
Norm3(a, b, c) == FSqrt(FAdd(FAdd(FMul(a, a), FMul(b, b)), FMul(c, c)))

\* e *= (1.0 + K)
MulOneMinus_plus(e, K) ==
    IF IsFinite(e) /\ IsFinite(K) THEN Rnd(e * (ONE + K), ONE)
    ELSE FMul(e, FAdd(ONE, K))

\* e *= (1.0 - K): the literal is a double, so the product is formed in
\* double precision and rounded to float once, on the store
MulOneMinus(e, K) ==
    IF IsFinite(e) /\ IsFinite(K) THEN Rnd(e * (ONE - K), ONE)
    ELSE FMul(e, FSub(ONE, K))

\* one axis of the Kalman filter: estimate f, error e, measurement v
Kalman(f, e, v, Q, R) ==
    LET e1 == FAdd(e, Q)
        K == FDiv(e1, FAdd(e1, R))
    IN  [f |-> FAdd(f, FMul(K, FSub(v, f))), e |-> MulOneMinus(e1, K), K |-> K]

\* A call's result: the statics after the call, the value returned and the
\* source line of the return statement that was taken.
Result(s, ret, line) == [s |-> s, ret |-> ret, line |-> line]

motionLP_0 == [setup |-> 0, smpl |-> 0, pX |-> 0, pY |-> 0, pZ |-> 0,
               fX |-> 0, fY |-> 0, fZ |-> 0]

\* motionLP refreshing the snapshot on the decimated calls too
motionLP_snap(s, x, y, z, alpha, delta, sample) ==
    IF s.setup = 0
    THEN Result([s EXCEPT !.fX = x, !.fY = y, !.fZ = z, !.setup = Inc8(s.setup)], 0, 41)
    ELSE LET fX == LowPass(alpha, x, s.fX)
             fY == LowPass(alpha, y, s.fY)
             fZ == LowPass(alpha, z, s.fZ)
             s1 == [s EXCEPT !.fX = fX, !.fY = fY, !.fZ = fZ]
         IN  IF Warming(s.setup)
             THEN Result([s1 EXCEPT !.pX = fX, !.pY = fY, !.pZ = fZ,
                                    !.setup = Inc8(s.setup)], 0, 53)
             ELSE IF Skip(s.smpl, sample)
             THEN Result([s1 EXCEPT !.pX = fX, !.pY = fY, !.pZ = fZ,
                                    !.smpl = Inc8(s.smpl)], 0, 56)
             ELSE LET dX == FAbs(FSub(fX, s.pX))
                      dY == FAbs(FSub(fY, s.pY))
                      dZ == FAbs(FSub(fZ, s.pZ))
                      m == Norm3(dX, dY, dZ)
                  IN  IF FGt(m, delta)
                      THEN Result([s1 EXCEPT !.smpl = 0, !.setup = 0], m, 67)
                      ELSE Result([s1 EXCEPT !.smpl = 0], 0, 69)

\* motionLP without smpl = 0 after the decimation test
motionLP_noclear(s, x, y, z, alpha, delta, sample) ==
    IF s.setup = 0
    THEN Result([s EXCEPT !.fX = x, !.fY = y, !.fZ = z, !.setup = Inc8(s.setup)], 0, 41)
    ELSE LET fX == LowPass(alpha, x, s.fX)
             fY == LowPass(alpha, y, s.fY)
             fZ == LowPass(alpha, z, s.fZ)
             s1 == [s EXCEPT !.fX = fX, !.fY = fY, !.fZ = fZ]
         IN  IF Warming(s.setup)
             THEN Result([s1 EXCEPT !.pX = fX, !.pY = fY, !.pZ = fZ,
                                    !.setup = Inc8(s.setup)], 0, 53)
             ELSE IF Skip(s.smpl, sample)
             THEN Result([s1 EXCEPT !.smpl = Inc8(s.smpl)], 0, 56)
             ELSE LET dX == FAbs(FSub(fX, s.pX))
                      dY == FAbs(FSub(fY, s.pY))
                      dZ == FAbs(FSub(fZ, s.pZ))
                      m == Norm3(dX, dY, dZ)
                  IN  IF FGt(m, delta)
                      THEN Result([s1 EXCEPT !.smpl = Inc8(s.smpl), !.setup = 0], m, 67)
                      ELSE Result([s1 EXCEPT !.smpl = Inc8(s.smpl)], 0, 69)

motionLP(s, x, y, z, alpha, delta, sample) ==
    IF s.setup = 0
    THEN Result([s EXCEPT !.fX = x, !.fY = y, !.fZ = z, !.setup = Inc8(s.setup)], 0, 41)
    ELSE LET fX == LowPass(alpha, x, s.fX)
             fY == LowPass(alpha, y, s.fY)
             fZ == LowPass(alpha, z, s.fZ)
             s1 == [s EXCEPT !.fX = fX, !.fY = fY, !.fZ = fZ]
         IN  IF Warming(s.setup)
             THEN Result([s1 EXCEPT !.pX = fX, !.pY = fY, !.pZ = fZ,
                                    !.setup = Inc8(s.setup)], 0, 53)
             ELSE IF Skip(s.smpl, sample)
             THEN Result([s1 EXCEPT !.smpl = Inc8(s.smpl)], 0, 56)
             ELSE LET dX == FAbs(FSub(fX, s.pX))
                      dY == FAbs(FSub(fY, s.pY))
                      dZ == FAbs(FSub(fZ, s.pZ))
                      m == Norm3(dX, dY, dZ)
                  IN  IF FGt(m, delta)
                      THEN Result([s1 EXCEPT !.smpl = 0, !.setup = 0], m, 67)
                      ELSE Result([s1 EXCEPT !.smpl = 0], 0, 69)

motionK_0 == [setup |-> 0, smpl |-> 0, fX |-> 0, fY |-> 0, fZ |-> 0,
              eX |-> 0, eY |-> 0, eZ |-> 0, pX |-> 0, pY |-> 0, pZ |-> 0]

\* motionK without the ceiling on the distance
motionK_nocap(s, x, y, z, Q, R, E, delta, sample) ==
    IF s.setup = 0
    THEN Result([s EXCEPT !.fX = x, !.fY = y, !.fZ = z,
                          !.eX = E, !.eY = E, !.eZ = E,
                          !.setup = Inc8(s.setup)], 0, 97)
    ELSE LET kX == Kalman(s.fX, s.eX, x, Q, R)
             kY == Kalman(s.fY, s.eY, y, Q, R)
             kZ == Kalman(s.fZ, s.eZ, z, Q, R)
             s1 == [s EXCEPT !.fX = kX.f, !.fY = kY.f, !.fZ = kZ.f,
                             !.eX = kX.e, !.eY = kY.e, !.eZ = kZ.e]
         IN  IF Warming(s.setup)
             THEN Result([s1 EXCEPT !.pX = kX.f, !.pY = kY.f, !.pZ = kZ.f,
                                    !.setup = Inc8(s.setup)], 0, 121)
             ELSE IF Skip(s.smpl, sample)
             THEN Result([s1 EXCEPT !.smpl = Inc8(s.smpl)], 0, 124)
             ELSE LET dX == FAbs(FSub(kX.f, s.pX))
                      dY == FAbs(FSub(kY.f, s.pY))
                      dZ == FAbs(FSub(kZ.f, s.pZ))
                      m == Norm3(dX, dY, dZ)
                  IN  IF FGt(m, delta)
                      THEN Result([s1 EXCEPT !.smpl = 0, !.setup = 0], m, 135)
                      ELSE Result([s1 EXCEPT !.smpl = 0], 0, 137)

motionK(s, x, y, z, Q, R, E, delta, sample) ==
    IF s.setup = 0
    THEN Result([s EXCEPT !.fX = x, !.fY = y, !.fZ = z,
                          !.eX = E, !.eY = E, !.eZ = E,
                          !.setup = Inc8(s.setup)], 0, 97)
    ELSE LET kX == Kalman(s.fX, s.eX, x, Q, R)
             kY == Kalman(s.fY, s.eY, y, Q, R)
             kZ == Kalman(s.fZ, s.eZ, z, Q, R)
             s1 == [s EXCEPT !.fX = kX.f, !.fY = kY.f, !.fZ = kZ.f,
                             !.eX = kX.e, !.eY = kY.e, !.eZ = kZ.e]
         IN  IF Warming(s.setup)
             THEN Result([s1 EXCEPT !.pX = kX.f, !.pY = kY.f, !.pZ = kZ.f,
                                    !.setup = Inc8(s.setup)], 0, 121)
             ELSE IF Skip(s.smpl, sample)
             THEN Result([s1 EXCEPT !.smpl = Inc8(s.smpl)], 0, 124)
             ELSE LET dX == FAbs(FSub(kX.f, s.pX))
                      dY == FAbs(FSub(kY.f, s.pY))
                      dZ == FAbs(FSub(kZ.f, s.pZ))
                      m == Norm3(dX, dY, dZ)
                  IN  IF FGt(m, delta) /\ FLt(m, ONE)
                      THEN Result([s1 EXCEPT !.smpl = 0, !.setup = 0], m, 135)
                      ELSE Result([s1 EXCEPT !.smpl = 0], 0, 137)

distortionHP_0 == [setup |-> 0, iX |-> 0, iY |-> 0, iZ |-> 0,
                   oX |-> 0, oY |-> 0, oZ |-> 0, M |-> 0]

\* distortionHP clearing the high-pass output when it fires
distortionHP_reset(s, x, y, z, alpha, delta) ==
    LET oX == FMul(alpha, FSub(FAdd(s.oX, x), s.iX))
        oY == FMul(alpha, FSub(FAdd(s.oY, y), s.iY))
        oZ == FMul(alpha, FSub(FAdd(s.oZ, z), s.iZ))
        s1 == [s EXCEPT !.oX = oX, !.oY = oY, !.oZ = oZ,
                        !.iX = x, !.iY = y, !.iZ = z]
        m == Norm3(FSub(x, oX), FSub(y, oY), FSub(z, oZ))
    IN  IF s.setup = 0
        THEN Result([s1 EXCEPT !.M = m, !.setup = Inc8(s.setup)], 0, 170)
        ELSE IF Warming(s.setup)
        THEN Result([s1 EXCEPT !.M = LowPass(alpha, m, s.M),
                               !.setup = Inc8(s.setup)], 0, 176)
        ELSE LET d == FAbs(FSub(s.M, m))
             IN  IF FGt(d, delta)
                 THEN Result([s1 EXCEPT !.setup = 0, !.oX = 0, !.oY = 0, !.oZ = 0], d, 183)
                 ELSE Result(s1, 0, 185)

distortionHP(s, x, y, z, alpha, delta) ==
    LET oX == FMul(alpha, FSub(FAdd(s.oX, x), s.iX))
        oY == FMul(alpha, FSub(FAdd(s.oY, y), s.iY))
        oZ == FMul(alpha, FSub(FAdd(s.oZ, z), s.iZ))
        s1 == [s EXCEPT !.oX = oX, !.oY = oY, !.oZ = oZ,
                        !.iX = x, !.iY = y, !.iZ = z]
        m == Norm3(FSub(x, oX), FSub(y, oY), FSub(z, oZ))
    IN  IF s.setup = 0
        THEN Result([s1 EXCEPT !.M = m, !.setup = Inc8(s.setup)], 0, 170)
        ELSE IF Warming(s.setup)
        THEN Result([s1 EXCEPT !.M = LowPass(alpha, m, s.M),
                               !.setup = Inc8(s.setup)], 0, 176)
        ELSE LET d == FAbs(FSub(s.M, m))
             IN  IF FGt(d, delta)
                 THEN Result([s1 EXCEPT !.setup = 0], d, 183)
                 ELSE Result(s1, 0, 185)

distortionLP_0 == [setup |-> 0, aX |-> 0, aY |-> 0, aZ |-> 0]

\* distortionLP firing without setup = 0
distortionLP_noreset(s, x, y, z, alpha, delta) ==
    IF s.setup = 0
    THEN Result([s EXCEPT !.aX = x, !.aY = y, !.aZ = z, !.setup = Inc8(s.setup)], 0, 201)
    ELSE LET dX == FSub(x, s.aX)
             dY == FSub(y, s.aY)
             dZ == FSub(z, s.aZ)
             s1 == [s EXCEPT !.aX = LowPass(alpha, x, s.aX),
                             !.aY = LowPass(alpha, y, s.aY),
                             !.aZ = LowPass(alpha, z, s.aZ)]
         IN  IF Warming(s.setup)
             THEN Result([s1 EXCEPT !.setup = Inc8(s.setup)], 0, 214)
             ELSE LET m == Norm3(dX, dY, dZ)
                  IN  IF FGt(m, delta)
                      THEN Result(s1, m, 221)
                      ELSE Result(s1, 0, 223)

\* distortionLP taking the residual from the average after the update
distortionLP_post(s, x, y, z, alpha, delta) ==
    IF s.setup = 0
    THEN Result([s EXCEPT !.aX = x, !.aY = y, !.aZ = z, !.setup = Inc8(s.setup)], 0, 201)
    ELSE LET dX == FSub(x, LowPass(alpha, x, s.aX))
             dY == FSub(y, LowPass(alpha, y, s.aY))
             dZ == FSub(z, LowPass(alpha, z, s.aZ))
             s1 == [s EXCEPT !.aX = LowPass(alpha, x, s.aX),
                             !.aY = LowPass(alpha, y, s.aY),
                             !.aZ = LowPass(alpha, z, s.aZ)]
         IN  IF Warming(s.setup)
             THEN Result([s1 EXCEPT !.setup = Inc8(s.setup)], 0, 214)
             ELSE LET m == Norm3(dX, dY, dZ)
                  IN  IF FGt(m, delta)
                      THEN Result([s1 EXCEPT !.setup = 0], m, 221)
                      ELSE Result(s1, 0, 223)

distortionLP(s, x, y, z, alpha, delta) ==
    IF s.setup = 0
    THEN Result([s EXCEPT !.aX = x, !.aY = y, !.aZ = z, !.setup = Inc8(s.setup)], 0, 201)
    ELSE LET dX == FSub(x, s.aX)
             dY == FSub(y, s.aY)
             dZ == FSub(z, s.aZ)
             s1 == [s EXCEPT !.aX = LowPass(alpha, x, s.aX),
                             !.aY = LowPass(alpha, y, s.aY),
                             !.aZ = LowPass(alpha, z, s.aZ)]
         IN  IF Warming(s.setup)
             THEN Result([s1 EXCEPT !.setup = Inc8(s.setup)], 0, 214)
             ELSE LET m == Norm3(dX, dY, dZ)
                  IN  IF FGt(m, delta)
                      THEN Result([s1 EXCEPT !.setup = 0], m, 221)
                      ELSE Result(s1, 0, 223)

inclineLP_0 == [setup |-> 0, aX |-> 0, aY |-> 0, aZ |-> 0]

\* inclineLP seeding aZ from y
inclineLP_typo(s, x, y, z, alpha, delta) ==
    IF s.setup = 0
    THEN Result([s EXCEPT !.aX = x, !.aY = y, !.aZ = y, !.setup = Inc8(s.setup)], 0, 361)
    ELSE LET aX == LowPass(alpha, x, s.aX)
             aY == LowPass(alpha, y, s.aY)
             aZ == LowPass(alpha, z, s.aZ)
             s1 == [s EXCEPT !.aX = aX, !.aY = aY, !.aZ = aZ]
         IN  IF Warming(s.setup)
             THEN Result([s1 EXCEPT !.setup = Inc8(s.setup)], 0, 370)
             ELSE LET theta == FMul(acosf(FDiv(aZ, Norm3(aX, aY, aZ))), RAD2DEG)
                  IN  IF FGt(theta, FAbs(delta))
                      THEN Result([s1 EXCEPT !.setup = 0], theta, 377)
                      ELSE Result(s1, 0, 379)

\* inclineLP comparing the angle with delta itself rather than |delta|
inclineLP_signed(s, x, y, z, alpha, delta) ==
    IF s.setup = 0
    THEN Result([s EXCEPT !.aX = x, !.aY = y, !.aZ = z, !.setup = Inc8(s.setup)], 0, 361)
    ELSE LET aX == LowPass(alpha, x, s.aX)
             aY == LowPass(alpha, y, s.aY)
             aZ == LowPass(alpha, z, s.aZ)
             s1 == [s EXCEPT !.aX = aX, !.aY = aY, !.aZ = aZ]
         IN  IF Warming(s.setup)
             THEN Result([s1 EXCEPT !.setup = Inc8(s.setup)], 0, 370)
             ELSE LET theta == FMul(acosf(FDiv(aZ, Norm3(aX, aY, aZ))), RAD2DEG)
                  IN  IF FGt(theta, delta)
                      THEN Result([s1 EXCEPT !.setup = 0], theta, 377)
                      ELSE Result(s1, 0, 379)

inclineLP(s, x, y, z, alpha, delta) ==
    IF s.setup = 0
    THEN Result([s EXCEPT !.aX = x, !.aY = y, !.aZ = z, !.setup = Inc8(s.setup)], 0, 361)
    ELSE LET aX == LowPass(alpha, x, s.aX)
             aY == LowPass(alpha, y, s.aY)
             aZ == LowPass(alpha, z, s.aZ)
             s1 == [s EXCEPT !.aX = aX, !.aY = aY, !.aZ = aZ]
         IN  IF Warming(s.setup)
             THEN Result([s1 EXCEPT !.setup = Inc8(s.setup)], 0, 370)
             ELSE LET theta == FMul(acosf(FDiv(aZ, Norm3(aX, aY, aZ))), RAD2DEG)
                  IN  IF FGt(theta, FAbs(delta))
                      THEN Result([s1 EXCEPT !.setup = 0], theta, 377)
                      ELSE Result(s1, 0, 379)

detectFall_0 == [stage |-> STAGE_INIT, smpl |-> 0]

\* detectFall with the weightlessness test written M <= wThs
detectFall_le(s, x, y, z, wThs, iThs) ==
    LET M == Norm3(x, y, z)
        stage ==
            CASE s.stage = STAGE_INIT ->
                     IF ~FGt(M, wThs) THEN STAGE_WEIGHLESSNESS ELSE s.stage
              [] s.stage = STAGE_WEIGHLESSNESS ->
                     IF FGt(M, iThs) THEN STAGE_FALL ELSE s.stage
              [] s.stage = STAGE_FALL ->
                     IF FEq(FAdd(wThs, iThs), 0) THEN STAGE_INIT ELSE s.stage
    IN  Result([s EXCEPT !.stage = stage], stage, 406)

\* detectFall with the reset written wThs == 0.0 && iThs == 0.0
detectFall_both(s, x, y, z, wThs, iThs) ==
    LET M == Norm3(x, y, z)
        stage ==
            CASE s.stage = STAGE_INIT ->
                     IF FLt(M, wThs) THEN STAGE_WEIGHLESSNESS ELSE s.stage
              [] s.stage = STAGE_WEIGHLESSNESS ->
                     IF FGt(M, iThs) THEN STAGE_FALL ELSE s.stage
              [] s.stage = STAGE_FALL ->
                     IF FEq(wThs, 0) /\ FEq(iThs, 0) THEN STAGE_INIT ELSE s.stage
    IN  Result([s EXCEPT !.stage = stage], stage, 406)

\* detectFall whose Init case falls through into the Weightlessness case
detectFall_nobreak(s, x, y, z, wThs, iThs) ==
    LET M == Norm3(x, y, z)
        stage ==
            CASE s.stage = STAGE_INIT ->
                     IF FLt(M, wThs)
                     THEN (IF FGt(M, iThs) THEN STAGE_FALL ELSE STAGE_WEIGHLESSNESS)
                     ELSE s.stage
              [] s.stage = STAGE_WEIGHLESSNESS ->
                     IF FGt(M, iThs) THEN STAGE_FALL ELSE s.stage
              [] s.stage = STAGE_FALL ->
                     IF FEq(FAdd(wThs, iThs), 0) THEN STAGE_INIT ELSE s.stage
    IN  Result([s EXCEPT !.stage = stage], stage, 406)

detectFall(s, x, y, z, wThs, iThs) ==
    LET M == Norm3(x, y, z)
        stage ==
            CASE s.stage = STAGE_INIT ->
                     IF FLt(M, wThs) THEN STAGE_WEIGHLESSNESS ELSE s.stage
              [] s.stage = STAGE_WEIGHLESSNESS ->
                     IF FGt(M, iThs) THEN STAGE_FALL ELSE s.stage
              [] s.stage = STAGE_FALL ->
                     IF FEq(FAdd(wThs, iThs), 0) THEN STAGE_INIT ELSE s.stage
    IN  Result([s EXCEPT !.stage = stage], stage, 406)

\* sqrtf(a * a + b * b)
Norm2(a, b) == FSqrt(FAdd(FMul(a, a), FMul(b, b)))

\* an object that was never written: its value is indeterminate
Indet == 16 * FltMax

\* float pitchLP, rollLP, yawLP = 0.0F;  initialises yawLP only
ang_0 == [pitch |-> Indet, roll |-> Indet, yaw |-> 0]

\* The orientation estimators also write through pitch, roll and yaw: o is
\* what the three pointers refer to.
\* the outputs left as the caller declared them
ResultO_nowrite(s, o, ret, line) == [s |-> s, o |-> ang_0, ret |-> ret, line |-> line]

ResultO(s, o, ret, line) == [s |-> s, o |-> o, ret |-> ret, line |-> line]

orientLP_0 == [setup |-> 0, aX |-> 0, aY |-> 0, aZ |-> 0,
               mX |-> 0, mY |-> 0, mZ |-> 0]

orientLP(s, o, a, m, alpha) ==
    IF s.setup = 0
    THEN ResultO([s EXCEPT !.aX = a[1], !.aY = a[2], !.aZ = a[3],
                           !.mX = m[1], !.mY = m[2], !.mZ = m[3],
                           !.setup = Inc8(s.setup)], o, 1, 246)
    ELSE LET aX == LowPass(alpha, a[1], s.aX)
             aY == LowPass(alpha, a[2], s.aY)
             aZ == LowPass(alpha, a[3], s.aZ)
             mX == LowPass(alpha, m[1], s.mX)
             mY == LowPass(alpha, m[2], s.mY)
             mZ == LowPass(alpha, m[3], s.mZ)
             s1 == [s EXCEPT !.aX = aX, !.aY = aY, !.aZ = aZ,
                             !.mX = mX, !.mY = mY, !.mZ = mZ]
         IN  IF Warming(s.setup)
             THEN ResultO([s1 EXCEPT !.setup = Inc8(s.setup)], o, 1, 258)
             ELSE LET pitch == FMul(atan2f(aX, Norm2(aY, aZ)), RAD2DEG)
                      roll == FMul(atan2f(aY, Norm2(aX, aZ)), RAD2DEG)
                      \* normalize accelerometer, in place
                      Na == Norm3(aX, aY, aZ)
                      naX == FDiv(aX, Na)
                      naY == FDiv(aY, Na)
                      naZ == FDiv(aZ, Na)
                      \* normalize magnetometer, in place
                      Nm == Norm3(mX, mY, mZ)
                      nmX == FDiv(mX, Nm)
                      nmY == FDiv(mY, Nm)
                      nmZ == FDiv(mZ, Nm)
                      Mx == FSub(FMul(nmX, naZ), FMul(nmZ, naX))
                      My == FSub(FMul(nmY, naZ), FMul(nmZ, naY))
                      yaw == FMul(atan2f(My, Mx), RAD2DEG)
                  IN  ResultO([s1 EXCEPT !.aX = naX, !.aY = naY, !.aZ = naZ,
                                         !.mX = nmX, !.mY = nmY, !.mZ = nmZ],
                              [pitch |-> pitch, roll |-> roll, yaw |-> yaw], 0, 279)

orientK_0 == [setup |-> 0, fA |-> <<0, 0, 0>>, fM |-> <<0, 0, 0>>,
              eA |-> <<0, 0, 0>>, eM |-> <<0, 0, 0>>]

orientK(s, o, a, m, Q, R, E) ==
    IF s.setup = 0
    THEN ResultO([s EXCEPT !.fA = a, !.fM = m,
                           !.eA = <<E, E, E>>, !.eM = <<E, E, E>>,
                           !.setup = Inc8(s.setup)], o, 1, 305)
    ELSE LET kA == [i \in 1..3 |-> Kalman(s.fA[i], s.eA[i], a[i], Q, R)]
             kM == [i \in 1..3 |-> Kalman(s.fM[i], s.eM[i], m[i], Q, R)]
             fA == [i \in 1..3 |-> kA[i].f]
             fM == [i \in 1..3 |-> kM[i].f]
             s1 == [s EXCEPT !.fA = fA, !.fM = fM,
                             !.eA = [i \in 1..3 |-> kA[i].e],
                             !.eM = [i \in 1..3 |-> kM[i].e]]
         IN  IF Warming(s.setup)
             THEN ResultO([s1 EXCEPT !.setup = Inc8(s.setup)], o, 1, 324)
             ELSE LET pitch == FMul(atan2f(fA[1], Norm2(fA[2], fA[3])), RAD2DEG)
                      roll == FMul(atan2f(fA[2], Norm2(fA[1], fA[3])), RAD2DEG)
                      Na == Norm3(fA[1], fA[2], fA[3])
                      nA == [i \in 1..3 |-> FDiv(fA[i], Na)]
                      Nm == Norm3(fM[1], fM[2], fM[3])
                      nM == [i \in 1..3 |-> FDiv(fM[i], Nm)]
                      Mx == FSub(FMul(nM[1], nA[3]), FMul(nM[3], nA[1]))
                      My == FSub(FMul(nM[2], nA[3]), FMul(nM[3], nA[2]))
                      yaw == FMul(atan2f(My, Mx), RAD2DEG)
                  IN  ResultO([s1 EXCEPT !.fA = nA, !.fM = nM],
                              [pitch |-> pitch, roll |-> roll, yaw |-> yaw], 0, 345)

----------------------------------------------------------------------------
(* State: the statics of every function, what the caller's pitch/roll/yaw  *)
(* variables hold, and a record of the last call.                          *)

VARIABLES
    mLP,        \* statics of motionLP
    mK,         \* statics of motionK
    dHP,        \* statics of distortionHP
    dLP,        \* statics of distortionLP
    oLP,        \* statics of orientLP
    oK,         \* statics of orientK
    iLP,        \* statics of inclineLP
    dF,         \* statics of detectFall
    angLP,      \* the caller's pitchLP, rollLP, yawLP (example main.c:347)
    angK,       \* the caller's pitchK, rollK, yawK (example main.c:348)
    last,       \* the last call: function, value returned, return line, the
                \* return line of the call before it, and how many calls in
                \* a row before it returned at the decimation test
    fallCall,   \* the last detectFall call: the stage it found, M and the thresholds
    calls,      \* calls made so far to each function, counted up to CNTSETUP + 2
    dut,        \* the function this run drives
    sample,     \* the decimation factor the caller passes to motionLP / motionK
    stream,     \* the input stream of a run that feeds a baseline and one spike
    huart_,     \* the log sink (log.c): 0 when there is none
    mix,        \* the functions a run interleaves, when it drives more than one
    irq1_,      \* volatile uint8_t irq1_ of the interrupt example (main.c:20)
    task,       \* the main loop of the interrupt example: where it is, the two
                \* values it read for irq1_ ^= irq1_, and whether a callback
                \* that found ia set has not been followed by a report yet
    drv,        \* the driver's globals lsm303_ashift, lsm303_alsb,
                \* lsm303_mlsb_xy, lsm303_mlsb_z (lsm303dlhc.c)
    io          \* the last driver call: its arguments of interest, the value
                \* returned, the bus transfers it issued and its outputs

vars == <<mLP, mK, dHP, dLP, oLP, oK, iLP, dF, angLP, angK, last, fallCall,
          calls, dut, sample, stream, huart_, mix, irq1_, task, drv, io>>

Fns == {"motionLP", "motionK", "distortionHP", "distortionLP", "orientLP",
        "orientK", "inclineLP", "detectFall"}

(* Bounds of the input streams *)
MaxSample == 2

\* accelerometer / magnetometer samples (x, y, z)
VRest == <<0, 0, ONE>>
VSide == <<ONE, 0, 0>>
VZero == <<0, 0, 0>>
VHit == <<0, 0, 2 * ONE>>
VDown == <<0, 0, 0 - ONE>>
VOdd == <<3, 0, ONE>>
VFar == <<0, 0, 13 * ONE + ONE \div 4>>

Alphas == {ONE \div 2, ONE \div 4 + 1}
Deltas == {0 - ONE \div 4, 0, ONE \div 4}

\* the return statements inside the branch that sets setup = 0
FireLines == {67, 135, 183, 221, 377}
\* the return statements of the warm-up branches (setup++)
WarmLines == {41, 53, 97, 121, 170, 176, 201, 214, 246, 258, 305, 324, 361, 370}
\* if (smpl++ < sample) return 0.0;
SkipLines == {56, 124}
\* the return statements after the distance check of motionLP / motionK
CheckLines == {67, 69, 135, 137}

(* log.h / log.c: xDebug formats its arguments into printbuf with sprintf   *)
(* and transmits them, when there is a sink.                               *)

\* char printbuf[128]
PRINTBUF == 128

\* number of decimal digits of a natural number
RECURSIVE Digits(_)
Digits(n) == IF n < 10 THEN 1 ELSE 1 + Digits(n \div 10)

\* digits of the integer part of a finite magnitude; FltMax stands for
\* FLT_MAX, whose integer part has 39 digits
IntDigits(a) == IF a >= FltMax THEN 39 ELSE Digits(a \div ONE)

\* characters "%f" (frac = 6) or "%.02f" (frac = 2) writes for v
FmtF(v, frac) ==
    IF IsNaN(v) THEN 3
    ELSE IF IsInf(v) THEN (IF v < 0 THEN 4 ELSE 3)
    ELSE (IF v < 0 THEN 1 ELSE 0) + IntDigits(Abs(v)) + 1 + frac

\* "%f, %f, %f\tD: %f\n"
LenD(x, y, z, m) == FmtF(x, 6) + FmtF(y, 6) + FmtF(z, 6) + FmtF(m, 6) + 9

\* "%f, %f, %f\tM: %f m: %f D: %f\n"
LenMmD(x, y, z, M, m, d) ==
    FmtF(x, 6) + FmtF(y, 6) + FmtF(z, 6) + FmtF(M, 6) + FmtF(m, 6) + FmtF(d, 6) + 17

\* "%f, %f, %f\tA: %.02f(degree sign)\n"
LenA(x, y, z, theta) == FmtF(x, 6) + FmtF(y, 6) + FmtF(z, 6) + FmtF(theta, 2) + 11

\* What a call that reaches xDebug can leave behind and return, r being what
\* it computes and len the length of the text.  Without a sink nothing is
\* formatted.  With one, a text of PRINTBUF or more characters (and its
\* terminator) is written past the end of printbuf: the objects behind it
\* are overwritten with characters, and the function's own statics may be
\* among them (here its setup byte, with the character '0').
xDebug(h, r, len) ==
    IF h = 0 \/ len < PRINTBUF THEN {r} ELSE {r, [r EXCEPT !.s.setup = 48]}

\* the outcomes of a call: only the firing branches call xDebug
Logged(h, r, len) == IF r.line \in FireLines THEN xDebug(h, r, len) ELSE {r}

\* main of an example before its set-up: the operands of irq1_ ^= irq1_ and
\* the interrupt counted and not yet reported, of the interrupt example; the
\* loop counter, float a[3] = { 0 }, float m[3] = { 0 } and the statuses of the
\* two reads of an iteration, of the orientation example, with whether orientLP
\* and orientK have returned 0 yet
task_0 == [pc |-> "setup", lhs |-> 0, rhs |-> 0, pending |-> FALSE, i |-> 0,
           a |-> <<0, 0, 0>>, m |-> <<0, 0, 0>>, la |-> "none", mf |-> "none",
           readyLP |-> FALSE, readyK |-> FALSE]

\* uint8_t lsm303_buf[6] = { 0 }; uint8_t lsm303_ashift = 0; float lsm303_alsb = 0.0F; float lsm303_mlsb_xy =
\* 0.0F; float lsm303_mlsb_z = 0.0F.  alsb is kept in 1/AlsbUnit g per LSB and
\* the two mlsb in LSB per Gauss, as the decimals the source assigns
drv_0 == [buf |-> <<0, 0, 0, 0, 0, 0>>, ashift |-> 0, alsb |-> 0, mlsb_xy |-> 0,
          mlsb_z |-> 0]

\* no driver call made yet
io_0 == [fn |-> "none", i2c |-> 0, args |-> <<>>, hal |-> <<>>, ret |-> "none",
         bus |-> <<>>, out |-> <<>>, was |-> <<>>, old |-> drv_0]

Counted(f) == [calls EXCEPT ![f] = IF @ > CNTSETUP + 1 THEN @ ELSE @ + 1]

InitStatics ==
    /\ mLP = motionLP_0
    /\ mK = motionK_0
    /\ dHP = distortionHP_0
    /\ dLP = distortionLP_0
    /\ oLP = orientLP_0
    /\ oK = orientK_0
    /\ iLP = inclineLP_0
    /\ dF = detectFall_0
    /\ angLP = ang_0
    /\ angK = ang_0
    /\ last = [fn |-> "none", ret |-> 0, line |-> 0, prev |-> 0, skips |-> 0]
    /\ fallCall = [stage |-> STAGE_INIT, M |-> 0, wThs |-> 0, iThs |-> 0]
    /\ calls = [f \in Fns |-> 0]
    /\ huart_ = 0
    /\ irq1_ = 0
    /\ task = task_0
    /\ drv = drv_0
    /\ io = io_0

Done(f, r) ==
    /\ last' = [fn |-> f, ret |-> r.ret, line |-> r.line, prev |-> last.line,
                 skips |-> IF last.line \in SkipLines THEN Inc8(last.skips) ELSE 0]
    /\ calls' = Counted(f)
    /\ UNCHANGED <<dut, sample, huart_, mix, irq1_, task, drv, io>>


CallMotionLP(x, y, z, alpha, delta) ==
    \E c \in {motionLP(mLP, x, y, z, alpha, delta, sample)} :
    \E r \in Logged(huart_, c, LenD(x, y, z, c.ret)) :
       /\ mLP' = r.s
       /\ Done("motionLP", r)
       /\ UNCHANGED <<mK, dHP, dLP, oLP, oK, iLP, dF, angLP, angK, fallCall>>

CallMotionK(x, y, z, Q, R, E, delta) ==
    \E c \in {motionK(mK, x, y, z, Q, R, E, delta, sample)} :
    \E r \in Logged(huart_, c, LenD(x, y, z, c.ret)) :
       /\ mK' = r.s
       /\ Done("motionK", r)
       /\ UNCHANGED <<mLP, dHP, dLP, oLP, oK, iLP, dF, angLP, angK, fallCall>>

CallDistortionHP(x, y, z, alpha, delta) ==
    \E c \in {distortionHP(dHP, x, y, z, alpha, delta)} :
    \E r \in Logged(huart_, c, LenMmD(x, y, z, c.s.M,
                      Norm3(FSub(x, c.s.oX), FSub(y, c.s.oY), FSub(z, c.s.oZ)),
                      c.ret)) :
       /\ dHP' = r.s
       /\ Done("distortionHP", r)
       /\ UNCHANGED <<mLP, mK, dLP, oLP, oK, iLP, dF, angLP, angK, fallCall>>

\* distortionLP keeping aX, aY, aZ in the objects inclineLP uses
CallDistortionLP_shared(x, y, z, alpha, delta) ==
    \E c \in {distortionLP(dLP, x, y, z, alpha, delta)} :
    \E r \in Logged(huart_, c, LenD(x, y, z, c.ret)) :
       /\ dLP' = r.s
       /\ iLP' = [iLP EXCEPT !.aX = r.s.aX, !.aY = r.s.aY, !.aZ = r.s.aZ]
       /\ Done("distortionLP", r)
       /\ UNCHANGED <<mLP, mK, dHP, oLP, oK, dF, angLP, angK, fallCall>>

CallDistortionLP(x, y, z, alpha, delta) ==
    \E c \in {distortionLP(dLP, x, y, z, alpha, delta)} :
    \E r \in Logged(huart_, c, LenD(x, y, z, c.ret)) :
       /\ dLP' = r.s
       /\ Done("distortionLP", r)
       /\ UNCHANGED <<mLP, mK, dHP, oLP, oK, iLP, dF, angLP, angK, fallCall>>

CallOrientLP(a, m, alpha) ==
    \E r \in {orientLP(oLP, angLP, a, m, alpha)} :
       /\ oLP' = r.s
       /\ angLP' = r.o
       /\ Done("orientLP", r)
       /\ UNCHANGED <<mLP, mK, dHP, dLP, oK, iLP, dF, angK, fallCall>>

CallOrientK(a, m, Q, R, E) ==
    \E r \in {orientK(oK, angK, a, m, Q, R, E)} :
       /\ oK' = r.s
       /\ angK' = r.o
       /\ Done("orientK", r)
       /\ UNCHANGED <<mLP, mK, dHP, dLP, oLP, iLP, dF, angLP, fallCall>>

CallInclineLP(x, y, z, alpha, delta) ==
    \E c \in {inclineLP(iLP, x, y, z, alpha, delta)} :
    \E r \in Logged(huart_, c, LenA(x, y, z, c.ret)) :
       /\ iLP' = r.s
       /\ Done("inclineLP", r)
       /\ UNCHANGED <<mLP, mK, dHP, dLP, oLP, oK, dF, angLP, angK, fallCall>>

CallDetectFall(x, y, z, wThs, iThs) ==
    \E r \in {detectFall(dF, x, y, z, wThs, iThs)} :
       /\ dF' = r.s
       /\ fallCall' = [stage |-> dF.stage, M |-> Norm3(x, y, z),
                       wThs |-> wThs, iThs |-> iThs]
       /\ Done("detectFall", r)
       /\ UNCHANGED <<mLP, mK, dHP, dLP, oLP, oK, iLP, angLP, angK>>

----------------------------------------------------------------------------
(* Free streams: one function is driven, with any sample and any           *)
(* parameters on every call.                                               *)

MotionVecs == {VRest, VSide}
FieldVecs == {VRest, VSide}
InclineVecs == {VRest, VSide, VZero}
FallVecs == {VZero, VRest, VHit}
Thresholds == {0 - ONE, 0, ONE \div 2, ONE}

Qs == {2}
Rs == {ONE}
Es == {ONE}

\* the orientation estimators are driven with one filter coefficient and
\* with these (acceleration, field) pairs
OrientAlphas == {ONE \div 2}
OrientPairs == {<<VRest, VSide>>, <<VSide, VRest>>, <<VRest, VRest>>}

Decimated == {"motionLP", "motionK"}

NoStream == [base |-> VZero, spike |-> VZero, alpha |-> 0, delta |-> 0,
             spiked |-> FALSE, fires |-> 0, reports |-> 0]

Init ==
    /\ InitStatics
    /\ dut \in Fns
    /\ sample \in (IF dut \in Decimated THEN {0, MaxSample} ELSE {0})
    /\ stream = NoStream
    /\ mix = {}

DriveMotionLP ==
    /\ UNCHANGED stream
    /\ dut = "motionLP"
    /\ \E v \in MotionVecs, alpha \in Alphas, delta \in Deltas :
           CallMotionLP(v[1], v[2], v[3], alpha, delta)

DriveMotionK ==
    /\ UNCHANGED stream
    /\ dut = "motionK"
    /\ \E v \in MotionVecs, Q \in Qs, R \in Rs, E \in Es, delta \in Deltas :
           CallMotionK(v[1], v[2], v[3], Q, R, E, delta)

DriveDistortionHP ==
    /\ UNCHANGED stream
    /\ dut = "distortionHP"
    /\ \E v \in FieldVecs, alpha \in Alphas, delta \in Deltas :
           CallDistortionHP(v[1], v[2], v[3], alpha, delta)

DriveDistortionLP ==
    /\ UNCHANGED stream
    /\ dut = "distortionLP"
    /\ \E v \in FieldVecs, alpha \in Alphas, delta \in Deltas :
           CallDistortionLP(v[1], v[2], v[3], alpha, delta)

DriveOrientLP ==
    /\ UNCHANGED stream
    /\ dut = "orientLP"
    /\ \E am \in OrientPairs, alpha \in OrientAlphas :
           CallOrientLP(am[1], am[2], alpha)

DriveOrientK ==
    /\ UNCHANGED stream
    /\ dut = "orientK"
    /\ \E am \in OrientPairs, Q \in Qs, R \in Rs, E \in Es :
           CallOrientK(am[1], am[2], Q, R, E)

DriveInclineLP ==
    /\ UNCHANGED stream
    /\ dut = "inclineLP"
    /\ \E v \in InclineVecs, alpha \in Alphas, delta \in Deltas :
           CallInclineLP(v[1], v[2], v[3], alpha, delta)

DriveDetectFall ==
    /\ UNCHANGED stream
    /\ dut = "detectFall"
    /\ \E v \in FallVecs, wThs \in Thresholds, iThs \in Thresholds :
           CallDetectFall(v[1], v[2], v[3], wThs, iThs)

Next ==
    \/ DriveMotionLP
    \/ DriveMotionK
    \/ DriveDistortionHP
    \/ DriveDistortionLP
    \/ DriveOrientLP
    \/ DriveOrientK
    \/ DriveInclineLP
    \/ DriveDetectFall

Spec == Init /\ [][Next]_vars

InitFall == Init /\ dut = "detectFall"

SpecFall == InitFall /\ [][DriveDetectFall]_vars

InitMotion ==
    /\ InitStatics
    /\ dut \in Decimated
    /\ sample \in 0..MaxSample
    /\ stream = NoStream
    /\ mix = {}

SpecMotion == InitMotion /\ [][DriveMotionLP \/ DriveMotionK]_vars

----------------------------------------------------------------------------
(* detectFall *)

\* C3: in stage Init the stage becomes Weightlessness iff M < wThs and
\* otherwise stays Init; in stage Weightlessness it becomes Fall iff
\* M > iThs and otherwise stays Weightlessness; the call returns the stage
\* it leaves behind.
C3_FallTransitions ==
    last.fn = "detectFall" =>
        /\ last.ret = dF.stage
        /\ fallCall.stage = STAGE_INIT =>
               dF.stage = (IF fallCall.M < fallCall.wThs
                           THEN STAGE_WEIGHLESSNESS ELSE STAGE_INIT)
        /\ fallCall.stage = STAGE_WEIGHLESSNESS =>
               dF.stage = (IF fallCall.M > fallCall.iThs
                           THEN STAGE_FALL ELSE STAGE_WEIGHLESSNESS)

C3_Witness ==
    /\ last.fn = "detectFall"
    /\ fallCall.stage = STAGE_WEIGHLESSNESS
    /\ fallCall.M > fallCall.iThs
    /\ dF.stage = STAGE_FALL
    /\ last.ret = STAGE_FALL

\* C4: a call made in stage Fall moves the stage (to Init) iff
\* wThs + iThs == 0; every other call leaves the stage Fall and returns Fall.
C4_FallLatched ==
    (last.fn = "detectFall" /\ fallCall.stage = STAGE_FALL) =>
        IF fallCall.wThs + fallCall.iThs = 0
        THEN dF.stage = STAGE_INIT /\ last.ret = STAGE_INIT
        ELSE dF.stage = STAGE_FALL /\ last.ret = STAGE_FALL

C4_Witness ==
    /\ last.fn = "detectFall"
    /\ fallCall.stage = STAGE_FALL
    /\ fallCall.wThs + fallCall.iThs # 0
    /\ fallCall.M > fallCall.iThs
    /\ fallCall.M < fallCall.wThs
    /\ dF.stage = STAGE_FALL

----------------------------------------------------------------------------
(* Baseline streams: the caller passes the same parameters on every call   *)
(* and feeds the sample `base` on every call but at most one, made after   *)
(* warm-up, on which it feeds `spike`.  From the spike on, stream.fires    *)
(* counts the firing calls and stream.reports the calls that returned a    *)
(* value greater than 0, both up to 2.                                     *)

Scalar == {"motionLP", "motionK", "distortionHP", "distortionLP", "inclineLP"}

BaseVecs == {VRest, VSide, VOdd, VFar}
SpikeVecs == {VHit, VSide, VRest}

Setup(f) ==
    CASE f = "motionLP" -> mLP.setup
      [] f = "motionK" -> mK.setup
      [] f = "distortionHP" -> dHP.setup
      [] f = "distortionLP" -> dLP.setup
      [] f = "orientLP" -> oLP.setup
      [] f = "orientK" -> oK.setup
      [] f = "inclineLP" -> iLP.setup
      [] OTHER -> 0

InitStream ==
    /\ InitStatics
    /\ dut \in Scalar
    /\ sample \in (IF dut \in Decimated THEN 0..MaxSample ELSE {0})
    /\ \E b \in BaseVecs, sp \in SpikeVecs, alpha \in Alphas, delta \in Deltas :
           /\ sp # b
           /\ stream = [base |-> b, spike |-> sp, alpha |-> alpha, delta |-> delta,
                        spiked |-> FALSE, fires |-> 0, reports |-> 0]
    /\ mix = {}

\* the call the run makes with the sample v
Feed(v) ==
    CASE dut = "motionLP" -> CallMotionLP(v[1], v[2], v[3], stream.alpha, stream.delta)
      [] dut = "motionK" -> \E Q \in Qs, R \in Rs, E \in Es :
                                CallMotionK(v[1], v[2], v[3], Q, R, E, stream.delta)
      [] dut = "distortionHP" ->
             CallDistortionHP(v[1], v[2], v[3], stream.alpha, stream.delta)
      [] dut = "distortionLP" ->
             CallDistortionLP(v[1], v[2], v[3], stream.alpha, stream.delta)
      [] dut = "inclineLP" -> CallInclineLP(v[1], v[2], v[3], stream.alpha, stream.delta)

Tally(n, hit) == IF hit /\ n < 2 THEN n + 1 ELSE n

FeedBase ==
    /\ Feed(stream.base)
    /\ stream' = [stream EXCEPT
                      !.fires = Tally(@, stream.spiked /\ last'.line \in FireLines),
                      !.reports = Tally(@, stream.spiked /\ last'.ret > 0)]

FeedSpike ==
    /\ ~stream.spiked
    /\ Setup(dut) = CNTSETUP
    /\ Feed(stream.spike)
    /\ stream' = [stream EXCEPT
                      !.spiked = TRUE,
                      !.fires = Tally(@, last'.line \in FireLines),
                      !.reports = Tally(@, last'.ret > 0)]

SpecStream == InitStream /\ [][FeedBase \/ FeedSpike]_vars

----------------------------------------------------------------------------
(* Warm-up *)

Orient == {"orientLP", "orientK"}
Warmed == Fns \ {"detectFall"}

\* what a call returns when it has no result: 0.0 or, from the orientation
\* estimators, 1 (not calculated)
NoResult(f) == IF f \in Orient THEN 1 ELSE 0

\* C1: each of the first CNTSETUP calls of a detector returns "no result",
\* whatever the samples and parameters; the call after them is the first
\* that can return anything else.
C1_WarmupSilent ==
    \A f \in Warmed :
        (last.fn = f /\ calls[f] <= CNTSETUP) => last.ret = NoResult(f)

C1_Witness ==
    /\ last.fn = "distortionHP"
    /\ calls["distortionHP"] = CNTSETUP + 1
    /\ last.ret > 0

\* C2: setup stays in 0..CNTSETUP; a call changes it only by +1 (a warm-up
\* call) or to 0 (a firing call); at CNTSETUP it stays there on every call
\* that does not fire.
C2_SetupStep ==
    \A f \in Warmed :
        LET a == Setup(f)
            b == Setup(f)'
        IN  /\ b \in 0..CNTSETUP
            /\ b # a => \/ b = a + 1 /\ last'.line \in WarmLines
                        \/ b = 0 /\ last'.line \in FireLines
            /\ (a = CNTSETUP /\ last'.line \notin FireLines) => b = CNTSETUP

C2_SetupCounter == [][C2_SetupStep]_vars

C2_Witness ==
    /\ last.fn = "inclineLP"
    /\ last.line = 379
    /\ last.prev = 379
    /\ iLP.setup = CNTSETUP

\* C6: a scalar detector's call returns a value greater than 0 iff it fired,
\* that is iff it left the warm-up counter at 0.
C6_PositiveIffFired ==
    last.fn \in Scalar => ((last.ret > 0) <=> (Setup(last.fn) = 0))

----------------------------------------------------------------------------
(* Decimation in motionLP and motionK *)

\* C8 (as claimed): after warm-up the distance check is made on every
\* sample-th call, so a check is preceded by sample - 1 decimated calls.
C8_CheckEverySample ==
    (last.fn \in Decimated /\ sample >= 1 /\ last.line \in CheckLines) =>
        last.skips + 1 = sample

\* C8 (amended): after warm-up the distance check is made on every
\* (sample + 1)-th call: each check is preceded by exactly `sample`
\* decimated calls in a row, and each of those returns 0.
C8_CheckEverySamplePlus1 ==
    last.fn \in Decimated =>
        /\ last.line \in CheckLines => last.skips = sample
        /\ last.line \in SkipLines => last.ret = 0 /\ last.skips < sample

C8_Witness ==
    /\ last.fn = "motionK"
    /\ sample = 2
    /\ last.line = 137
    /\ last.skips = 2
    /\ calls["motionK"] > CNTSETUP + 1

Snapshot(s) == <<s.pX, s.pY, s.pZ>>
Filtered3(s) == <<s.fX, s.fY, s.fZ>>

\* C9: a call made after warm-up with smpl < sample returns 0 and leaves
\* setup and the snapshot as they were; smpl advances by one.
C9_SkipStep ==
    /\ (last'.fn = "motionLP" /\ last' # last
            /\ mLP.setup = CNTSETUP /\ mLP.smpl < sample) =>
           /\ last'.ret = 0
           /\ mLP'.setup = mLP.setup
           /\ Snapshot(mLP') = Snapshot(mLP)
           /\ mLP'.smpl = mLP.smpl + 1
    /\ (last'.fn = "motionK" /\ last' # last
            /\ mK.setup = CNTSETUP /\ mK.smpl < sample) =>
           /\ last'.ret = 0
           /\ mK'.setup = mK.setup
           /\ Snapshot(mK') = Snapshot(mK)
           /\ mK'.smpl = mK.smpl + 1

C9_SkipWindow == [][C9_SkipStep]_vars

C9_Witness ==
    /\ last.fn = "motionLP"
    /\ last.line = 56
    /\ last.prev = 56
    /\ Filtered3(mLP) # Snapshot(mLP)

----------------------------------------------------------------------------
(* Baseline streams *)

\* the low-pass filter reproduces the baseline exactly: on each axis
\* alpha * b + (1 - alpha) * b evaluates to b
ExactBase ==
    \A i \in 1..3 : LowPass(stream.alpha, stream.base[i], stream.base[i]) = stream.base[i]

Filtered(f) ==
    CASE f = "motionLP" -> Filtered3(mLP)
      [] f = "distortionLP" -> <<dLP.aX, dLP.aY, dLP.aZ>>
      [] f = "inclineLP" -> <<iLP.aX, iLP.aY, iLP.aZ>>

\* the angle between a sample and the z axis, in degrees
Tilt(v) == FMul(acosf(FDiv(v[3], Norm3(v[1], v[2], v[3]))), RAD2DEG)

LPs == {"motionLP", "distortionLP", "inclineLP"}

\* C7 (as claimed): the call after a firing call returns 0, and a single
\* spike on a constant baseline makes the detector fire no more than once
\* (stated for the streams with a threshold >= 0 and an exact baseline).
C7_SpikeFiresOnce ==
    /\ last.prev \in FireLines => last.ret = 0
    /\ (stream.delta >= 0 /\ (dut = "motionK" \/ ExactBase)) => stream.fires <= 1

\* C7 (amended): the call after a firing call returns 0 whatever its
\* sample; for motionLP, motionK and distortionLP on a baseline the filter
\* reproduces exactly, at most one call from the spike on returns a value
\* greater than 0.
C7_SpikeReportsOnce ==
    /\ last.prev \in FireLines => last.ret = 0
    /\ (dut \in {"motionLP", "motionK", "distortionLP"}
            /\ (dut = "motionK" \/ ExactBase)) => stream.reports <= 1

C7_Witness ==
    /\ dut = "distortionLP"
    /\ ExactBase
    /\ stream.spiked
    /\ stream.reports = 1
    /\ dLP.setup = CNTSETUP
    /\ last.line = 223

\* C10 (as claimed): on a constant stream every LP detector holds the input
\* as its filtered vector by the end of warm-up, and no call after warm-up
\* fires or returns anything but 0.
C10_ConstantNeverFires ==
    (~stream.spiked /\ dut \in LPs /\ calls[dut] >= CNTSETUP) =>
        /\ Filtered(dut) = stream.base
        /\ calls[dut] > CNTSETUP => last.ret = 0 /\ last.line \notin FireLines

\* C10 (amended): on a constant stream that the filter reproduces exactly,
\* every LP detector holds the input as its filtered vector after every
\* call; motionLP and distortionLP return 0 on every call; inclineLP returns
\* 0 on every call if the input's angle to the z axis is not above |delta|,
\* and otherwise returns nothing but 0 or that angle.
C10_ConstantExact ==
    (~stream.spiked /\ dut \in LPs /\ ExactBase /\ calls[dut] >= 1) =>
        /\ Filtered(dut) = stream.base
        /\ dut # "inclineLP" => last.ret = 0
        /\ dut = "inclineLP" =>
               IF Tilt(stream.base) > Abs(stream.delta)
               THEN last.ret \in {0, Tilt(stream.base)}
               ELSE last.ret = 0

C10_Witness ==
    /\ dut = "inclineLP"
    /\ ~stream.spiked
    /\ ExactBase
    /\ calls[dut] = CNTSETUP + 1
    /\ last.ret > Abs(stream.delta)
    /\ last.ret = Tilt(stream.base)

----------------------------------------------------------------------------
(* Orientation and inclination, fed also with zero vectors *)

VEast == <<0, ONE, 0>>

NormPairs == {<<VRest, VEast>>, <<VZero, VSide>>, <<VRest, VZero>>}

InitOrient ==
    /\ InitStatics
    /\ dut \in Orient \cup {"inclineLP"}
    /\ sample = 0
    /\ stream = NoStream
    /\ mix = {}

FeedOrientLP ==
    /\ UNCHANGED stream
    /\ dut = "orientLP"
    /\ \E am \in NormPairs, alpha \in OrientAlphas :
           CallOrientLP(am[1], am[2], alpha)

FeedOrientK ==
    /\ UNCHANGED stream
    /\ dut = "orientK"
    /\ \E am \in NormPairs, Q \in Qs, R \in Rs, E \in Es :
           CallOrientK(am[1], am[2], Q, R, E)

SpecOrient == InitOrient /\ [][FeedOrientLP \/ FeedOrientK \/ DriveInclineLP]_vars

\* the yaw of a normalised acceleration a and a normalised field m
YawOf(a, m) ==
    FMul(atan2f(FSub(FMul(m[2], a[3]), FMul(m[3], a[2])),
                FSub(FMul(m[1], a[3]), FMul(m[3], a[1]))), RAD2DEG)

\* what an estimator's call number n must have returned and left in the
\* caller's angles o, given the vectors a and m its statics hold afterwards
OrientReady(n, ret, o, a, m) ==
    IF n <= CNTSETUP
    THEN ret = 1 /\ o = ang_0
    ELSE ret = 0 /\ o.pitch # Indet /\ o.roll # Indet /\ o.yaw = YawOf(a, m)

\* C11: orientLP and orientK return 1 on each of their first CNTSETUP calls
\* and leave pitch, roll and yaw as the caller declared them; the next call
\* and every later one returns 0 with the three angles written.
C11_ReadyAfterWarmup ==
    /\ last.fn = "orientLP" =>
           OrientReady(calls["orientLP"], last.ret, angLP,
                       <<oLP.aX, oLP.aY, oLP.aZ>>, <<oLP.mX, oLP.mY, oLP.mZ>>)
    /\ last.fn = "orientK" =>
           OrientReady(calls["orientK"], last.ret, angK, oK.fA, oK.fM)

C11_Witness ==
    /\ last.fn = "orientK"
    /\ calls["orientK"] = CNTSETUP + 2
    /\ last.ret = 0
    /\ angK.yaw # 0
    /\ IsFinite(angK.yaw)

FiniteVec(v) == \A i \in 1..3 : IsFinite(v[i])

\* C12: no NaN and no infinity is ever written to an output or into the
\* persisted filter state of orientLP, orientK and inclineLP: a zero norm is
\* not divided by.
C12_NoZeroNormDivision ==
    /\ FiniteVec(<<oLP.aX, oLP.aY, oLP.aZ>>)
    /\ FiniteVec(<<oLP.mX, oLP.mY, oLP.mZ>>)
    /\ FiniteVec(oK.fA)
    /\ FiniteVec(oK.fM)
    /\ FiniteVec(<<iLP.aX, iLP.aY, iLP.aZ>>)
    /\ FiniteVec(<<angLP.pitch, angLP.roll, angLP.yaw>>)
    /\ FiniteVec(<<angK.pitch, angK.roll, angK.yaw>>)
    /\ last.fn = "inclineLP" => IsFinite(last.ret)

InitIncline ==
    /\ InitStatics
    /\ dut = "inclineLP"
    /\ sample = 0
    /\ stream = NoStream
    /\ mix = {}

SpecIncline == InitIncline /\ [][DriveInclineLP]_vars

InclineStep(s, v, alpha, delta) == inclineLP(s, v[1], v[2], v[3], alpha, delta)

\* C13: whatever inclineLP has persisted, a call with threshold delta and the
\* same call with -delta give the same return value and the same state; a
\* call made after warm-up returns the angle theta of the filtered vector
\* and resets setup to 0 when theta > |delta|, and otherwise returns 0 and
\* leaves setup at CNTSETUP.
C13_ThresholdMagnitude ==
    \A v \in InclineVecs, alpha \in Alphas, delta \in Deltas :
        \A r \in {InclineStep(iLP, v, alpha, delta)} :
            /\ r = InclineStep(iLP, v, alpha, 0 - delta)
            /\ iLP.setup = CNTSETUP =>
                   \A theta \in {Tilt(<<r.s.aX, r.s.aY, r.s.aZ>>)} :
                       IF ~IsNaN(theta) /\ theta > Abs(delta)
                       THEN r.ret = theta /\ r.s.setup = 0 /\ r.line = 377
                       ELSE r.ret = 0 /\ r.s.setup = CNTSETUP /\ r.line = 379

C13_Witness ==
    /\ last.fn = "inclineLP" /\ last.line = 377 /\ last.prev = 379
    /\ last.ret > ONE \div 4 /\ iLP.setup = 0
    /\ \E v \in InclineVecs, alpha \in Alphas :
           InclineStep([iLP EXCEPT !.setup = CNTSETUP], v, alpha, 0 - ONE \div 4).line = 377

----------------------------------------------------------------------------
(* Interleaved calls: two functions are called in any order, each with the *)
(* inputs its own call number selects.                                     *)

MixSets == {{"motionLP", "motionK"}, {"distortionHP", "distortionLP"},
            {"orientLP", "orientK"}, {"inclineLP", "detectFall"},
            {"distortionLP", "inclineLP"}, {"motionLP", "orientLP"}}

MixAlpha == ONE \div 2
MixDelta == ONE \div 4
MixLast == CNTSETUP + 2

\* the sample of a function's n-th call
MixVec(n) == IF n > CNTSETUP /\ n % 2 = 1 THEN VSide ELSE VRest
FallVec(n) == IF n % 3 = 1 THEN VZero ELSE IF n % 3 = 2 THEN VHit ELSE VRest

\* what a function persists between calls, with the angles its caller holds
Persisted(f) ==
    CASE f = "motionLP" -> [s |-> mLP, o |-> ang_0]
      [] f = "motionK" -> [s |-> mK, o |-> ang_0]
      [] f = "distortionHP" -> [s |-> dHP, o |-> ang_0]
      [] f = "distortionLP" -> [s |-> dLP, o |-> ang_0]
      [] f = "orientLP" -> [s |-> oLP, o |-> angLP]
      [] f = "orientK" -> [s |-> oK, o |-> angK]
      [] f = "inclineLP" -> [s |-> iLP, o |-> ang_0]
      [] f = "detectFall" -> [s |-> dF, o |-> ang_0]

Persisted_0(f) ==
    CASE f = "motionLP" -> motionLP_0
      [] f = "motionK" -> motionK_0
      [] f = "distortionHP" -> distortionHP_0
      [] f = "distortionLP" -> distortionLP_0
      [] f = "orientLP" -> orientLP_0
      [] f = "orientK" -> orientK_0
      [] f = "inclineLP" -> inclineLP_0
      [] f = "detectFall" -> detectFall_0

SoloResult(f, st, r) ==
    [s |-> r.s, o |-> IF f \in Orient THEN r.o ELSE st.o, ret |-> r.ret]

\* the run of f alone on its own sub-sequence of the calls, kept beside the
\* interleaved run: r is the outcome of its next call
Solo(f, r) == stream' = [stream EXCEPT ![f] = SoloResult(f, @, r)]

InitMix ==
    /\ InitStatics
    /\ dut = "mix"
    /\ sample = 0
    /\ mix \in MixSets
    /\ stream = [f \in mix |-> [s |-> Persisted_0(f), o |-> ang_0, ret |-> 0]]

Mixed(f) == dut = "mix" /\ f \in mix /\ calls[f] < MixLast

MixMotionLP ==
    /\ Mixed("motionLP")
    /\ \E v \in {MixVec(calls["motionLP"] + 1)} :
           /\ CallMotionLP(v[1], v[2], v[3], MixAlpha, MixDelta)
           /\ \E r \in {motionLP(stream["motionLP"].s, v[1], v[2], v[3],
                                 MixAlpha, MixDelta, 0)} : Solo("motionLP", r)

MixMotionK ==
    /\ Mixed("motionK")
    /\ \E v \in {MixVec(calls["motionK"] + 1)} :
           /\ CallMotionK(v[1], v[2], v[3], 2, ONE, ONE, MixDelta)
           /\ \E r \in {motionK(stream["motionK"].s, v[1], v[2], v[3],
                                2, ONE, ONE, MixDelta, 0)} : Solo("motionK", r)

MixDistortionHP ==
    /\ Mixed("distortionHP")
    /\ \E v \in {MixVec(calls["distortionHP"] + 1)} :
           /\ CallDistortionHP(v[1], v[2], v[3], MixAlpha, MixDelta)
           /\ \E r \in {distortionHP(stream["distortionHP"].s, v[1], v[2], v[3],
                                     MixAlpha, MixDelta)} : Solo("distortionHP", r)

MixDistortionLP ==
    /\ Mixed("distortionLP")
    /\ \E v \in {MixVec(calls["distortionLP"] + 1)} :
           /\ CallDistortionLP(v[1], v[2], v[3], MixAlpha, MixDelta)
           /\ \E r \in {distortionLP(stream["distortionLP"].s, v[1], v[2], v[3],
                                     MixAlpha, MixDelta)} : Solo("distortionLP", r)

MixOrientLP ==
    /\ Mixed("orientLP")
    /\ \E v \in {MixVec(calls["orientLP"] + 1)} :
           /\ CallOrientLP(v, VEast, MixAlpha)
           /\ \E r \in {orientLP(stream["orientLP"].s, stream["orientLP"].o,
                                 v, VEast, MixAlpha)} : Solo("orientLP", r)

MixOrientK ==
    /\ Mixed("orientK")
    /\ \E v \in {MixVec(calls["orientK"] + 1)} :
           /\ CallOrientK(v, VEast, 2, ONE, ONE)
           /\ \E r \in {orientK(stream["orientK"].s, stream["orientK"].o,
                                v, VEast, 2, ONE, ONE)} : Solo("orientK", r)

MixInclineLP ==
    /\ Mixed("inclineLP")
    /\ \E v \in {MixVec(calls["inclineLP"] + 1)} :
           /\ CallInclineLP(v[1], v[2], v[3], MixAlpha, MixDelta)
           /\ \E r \in {inclineLP(stream["inclineLP"].s, v[1], v[2], v[3],
                                  MixAlpha, MixDelta)} : Solo("inclineLP", r)

MixDetectFall ==
    /\ Mixed("detectFall")
    /\ \E v \in {FallVec(calls["detectFall"] + 1)} :
           /\ CallDetectFall(v[1], v[2], v[3], ONE \div 2, ONE)
           /\ \E r \in {detectFall(stream["detectFall"].s, v[1], v[2], v[3],
                                   ONE \div 2, ONE)} : Solo("detectFall", r)

SpecMix ==
    InitMix /\ [][MixMotionLP \/ MixMotionK \/ MixDistortionHP \/ MixDistortionLP
                    \/ MixOrientLP \/ MixOrientK \/ MixInclineLP
                    \/ MixDetectFall]_vars

MixSolo ==
    \A f \in mix :
        /\ Persisted(f) = [s |-> stream[f].s, o |-> stream[f].o]
        /\ last.fn = f => last.ret = stream[f].ret

MixFrame ==
    \A f \in Fns : calls'[f] = calls[f] => Persisted(f)' = Persisted(f)

\* C14: a call to one function leaves what every other function persists
\* unchanged, and under any interleaving of two functions each one holds the
\* state and returns the value it has after the same calls made on its own.
C14_Isolation == [][MixFrame]_vars /\ []MixSolo

C14_Witness ==
    /\ mix = {"distortionLP", "inclineLP"}
    /\ calls["distortionLP"] = CNTSETUP + 1 /\ calls["inclineLP"] = CNTSETUP + 1
    /\ last.fn = "inclineLP" /\ last.line = 377 /\ last.prev = 221
    /\ iLP.setup = 0 /\ dLP.setup = 0
    /\ <<iLP.aX, iLP.aY, iLP.aZ>> = <<dLP.aX, dLP.aY, dLP.aZ>>

----------------------------------------------------------------------------
(* The log sink: setlog may be called between any two calls.               *)

VHuge == <<0 - FltMax, 0 - FltMax, 0 - FltMax>>
LogVecs == {VRest, VSide, VHuge}
Uarts == {0, 1}

\* the samples of the next call: the warm-up is fed the resting sample
LogInputs == IF Setup(dut) < CNTSETUP THEN {VRest} ELSE LogVecs

setlog(uart) == huart_' = uart

SetLog ==
    /\ \E uart \in Uarts : setlog(uart)
    /\ UNCHANGED <<mLP, mK, dHP, dLP, oLP, oK, iLP, dF, angLP, angK, last,
                   fallCall, calls, dut, sample, stream, mix, irq1_, task, drv, io>>

LogMotionLP ==
    /\ UNCHANGED stream
    /\ dut = "motionLP"
    /\ \E v \in LogInputs : CallMotionLP(v[1], v[2], v[3], MixAlpha, MixDelta)

LogInclineLP ==
    /\ UNCHANGED stream
    /\ dut = "inclineLP"
    /\ \E v \in LogInputs : CallInclineLP(v[1], v[2], v[3], MixAlpha, MixDelta)

InitLog ==
    /\ InitStatics
    /\ dut \in {"motionLP", "inclineLP"}
    /\ sample = 0
    /\ stream = NoStream
    /\ mix = {}

SpecLog == InitLog /\ [][SetLog \/ LogMotionLP \/ LogInclineLP]_vars

\* the outcomes of the next call are the same with and without a sink
SameOutcomes(c, len) == Logged(1, c, len) = Logged(0, c, len)

\* C15: whatever the functions have persisted, the next call has the same
\* return value and leaves the same state with a log sink set
\* (huart_ # 0) as with none (huart_ = 0).
C15_SinkIndependent ==
    \A v \in LogVecs :
        /\ \A c \in {motionLP(mLP, v[1], v[2], v[3], MixAlpha, MixDelta, sample)} :
               SameOutcomes(c, LenD(v[1], v[2], v[3], c.ret))
        /\ \A c \in {inclineLP(iLP, v[1], v[2], v[3], MixAlpha, MixDelta)} :
               SameOutcomes(c, LenA(v[1], v[2], v[3], c.ret))

----------------------------------------------------------------------------
(* motionLP and motionK: the snapshot and the check tick                   *)

\* sqrtf(dX * dX + dY * dY + dZ * dZ) of the absolute differences
Dist(f, p) ==
    Norm3(FAbs(FSub(f[1], p[1])), FAbs(FSub(f[2], p[2])), FAbs(FSub(f[3], p[3])))

\* a call made on s is a check tick: warm-up is over and the sample is due
CheckTick(s) == s.setup = CNTSETUP /\ ~(s.smpl < sample)

\* the call with outcome r made on the statics s with the sample v: capped
\* says whether distances of 1.0 and more are rejected
SnapshotRule(s, r, v, delta, capped) ==
    /\ s.setup = 0 => r.line \in {41, 97} /\ Filtered3(r.s) = v
    /\ IF s.setup \in 1..(CNTSETUP - 1)
       THEN r.line \in {53, 121} /\ Snapshot(r.s) = Filtered3(r.s)
       ELSE Snapshot(r.s) = Snapshot(s)
    /\ CheckTick(s) =>
           \A d \in {Dist(Filtered3(r.s), Snapshot(s))} :
               IF ~IsNaN(d) /\ d > delta /\ (capped => d < ONE)
               THEN r.line \in {67, 135} /\ r.ret = d /\ r.s.setup = 0
               ELSE r.line \in {69, 137} /\ r.ret = 0 /\ r.s.setup = CNTSETUP

\* C16: the snapshot of motionLP and motionK is written on the warm-up calls
\* that follow the seeding call, where it becomes the filtered vector, and
\* on no other call; a check tick fires iff the distance between the new
\* filtered vector and the snapshot exceeds delta (motionK: and is below
\* 1.0), then returns the distance and sets setup to 0; a call made with
\* setup = 0 seeds the filter with the raw sample.
C16_SnapshotAndFire ==
    /\ dut = "motionLP" =>
           \A v \in MotionVecs, alpha \in Alphas, delta \in Deltas :
               \A r \in {motionLP(mLP, v[1], v[2], v[3], alpha, delta, sample)} :
                   SnapshotRule(mLP, r, v, delta, FALSE)
    /\ dut = "motionK" =>
           \A v \in MotionVecs, Q \in Qs, R \in Rs, E \in Es, delta \in Deltas :
               \A r \in {motionK(mK, v[1], v[2], v[3], Q, R, E, delta, sample)} :
                   SnapshotRule(mK, r, v, delta, TRUE)

C16_Witness ==
    /\ last.fn = "motionK" /\ last.line = 135 /\ last.prev = 137
    /\ last.ret > ONE \div 4 /\ last.ret < ONE
    /\ mK.setup = 0
    /\ last.ret = Dist(Filtered3(mK), Snapshot(mK))

\* the check tick with outcome r made on the statics s: a distance of 1.0 or
\* more is not reported and changes neither setup nor the snapshot
CeilingRule(s, r) ==
    \A d \in {Dist(Filtered3(r.s), Snapshot(s))} :
        (CheckTick(s) /\ ~IsNaN(d) /\ d >= ONE) =>
            /\ r.ret = 0 /\ r.line = 137
            /\ r.s.setup = s.setup
            /\ Snapshot(r.s) = Snapshot(s)

\* C17: motionK never returns 1.0 or more; a check tick whose distance from
\* the snapshot is >= 1.0 returns 0 and leaves setup and the snapshot
\* unchanged.
C17_Ceiling ==
    /\ last.fn = "motionK" => last.ret >= 0 /\ last.ret < ONE
    /\ dut = "motionK" =>
           \A v \in MotionVecs, Q \in Qs, R \in Rs, E \in Es, delta \in Deltas :
               \A r \in {motionK(mK, v[1], v[2], v[3], Q, R, E, delta, sample)} :
                   CeilingRule(mK, r)

C17_Witness ==
    /\ last.fn = "motionK" /\ last.line = 137 /\ last.ret = 0
    /\ mK.setup = CNTSETUP
    /\ Dist(Filtered3(mK), Snapshot(mK)) >= ONE
    /\ IsFinite(Dist(Filtered3(mK), Snapshot(mK)))

----------------------------------------------------------------------------
(* orientK: the axes of the Kalman filter                                  *)

\* the accelerometer sample a with another measurement on the X axis
OtherX(a) == <<IF a[1] = 0 THEN ONE ELSE 0, a[2], a[3]>>

\* the persisted estimates and errors of every axis but the accelerometer's X
OtherAxes(s) == <<s.fA[2], s.fA[3], s.eA[2], s.eA[3], s.fM, s.eM>>

\* C18: whatever orientK has persisted, two calls that differ only in the
\* accelerometer's X measurement leave the same estimates and errors on
\* every other axis.
C18_AxisIndependent ==
    dut = "orientK" =>
        \A am \in NormPairs, Q \in Qs, R \in Rs, E \in Es :
            \A r \in {orientK(oK, angK, am[1], am[2], Q, R, E)} :
            \A q \in {orientK(oK, angK, OtherX(am[1]), am[2], Q, R, E)} :
                OtherAxes(r.s) = OtherAxes(q.s)

----------------------------------------------------------------------------
(* distortionLP and distortionHP                                           *)

InitDistortion ==
    /\ InitStatics
    /\ dut \in {"distortionHP", "distortionLP"}
    /\ sample = 0
    /\ stream = NoStream
    /\ mix = {}

SpecDistortion == InitDistortion /\ [][DriveDistortionHP \/ DriveDistortionLP]_vars

Average(s) == <<s.aX, s.aY, s.aZ>>

\* the call with outcome r made on the statics s with the sample v
AverageRule(s, r, v, alpha, delta) ==
    /\ Average(r.s) = IF s.setup = 0 THEN v
                      ELSE <<LowPass(alpha, v[1], s.aX), LowPass(alpha, v[2], s.aY),
                             LowPass(alpha, v[3], s.aZ)>>
    /\ s.setup = CNTSETUP =>
           \A m \in {Norm3(FSub(v[1], s.aX), FSub(v[2], s.aY), FSub(v[3], s.aZ))} :
               IF ~IsNaN(m) /\ m > delta
               THEN r.line = 221 /\ r.ret = m /\ r.s.setup = 0
               ELSE r.line = 223 /\ r.ret = 0 /\ r.s.setup = CNTSETUP

\* C19: every call of distortionLP updates the average (the seeding call
\* sets it to the sample, every other call, warming, firing or not, folds
\* the sample in with the low-pass), and after warm-up the call fires iff
\* the magnitude of the sample minus the average as it was before the call
\* exceeds delta.
C19_AverageEveryTick ==
    dut = "distortionLP" =>
        \A v \in FieldVecs, alpha \in Alphas, delta \in Deltas :
            \A r \in {distortionLP(dLP, v[1], v[2], v[3], alpha, delta)} :
                AverageRule(dLP, r, v, alpha, delta)

C19_Witness ==
    /\ last.fn = "distortionLP" /\ last.line = 221 /\ last.ret > ONE \div 4
    /\ dLP.setup = 0
    /\ Average(dLP) \notin FieldVecs

\* the high-pass filter's output for the sample v
HighPass(s, v, alpha) ==
    <<FMul(alpha, FSub(FAdd(s.oX, v[1]), s.iX)),
      FMul(alpha, FSub(FAdd(s.oY, v[2]), s.iY)),
      FMul(alpha, FSub(FAdd(s.oZ, v[3]), s.iZ))>>

\* the reference magnitude and the outcome of the call r made on s, whose
\* instantaneous magnitude is m
ReferenceRule(s, r, m, alpha, delta) ==
    /\ s.setup = 0 => r.s.M = m /\ r.line = 170
    /\ s.setup \in 1..(CNTSETUP - 1) => r.s.M = LowPass(alpha, m, s.M) /\ r.line = 176
    /\ s.setup = CNTSETUP =>
           /\ r.s.M = s.M
           /\ \A d \in {FAbs(FSub(s.M, m))} :
                  IF ~IsNaN(d) /\ d > delta
                  THEN r.line = 183 /\ r.ret = d /\ r.s.setup = 0
                  ELSE r.line = 185 /\ r.ret = 0 /\ r.s.setup = CNTSETUP

\* the call with outcome r made on the statics s with the sample v
MagnitudeRule(s, r, v, hp, alpha, delta) ==
    /\ <<r.s.iX, r.s.iY, r.s.iZ>> = v
    /\ <<r.s.oX, r.s.oY, r.s.oZ>> = hp
    /\ ReferenceRule(s, r, Norm3(FSub(v[1], hp[1]), FSub(v[2], hp[2]),
                                 FSub(v[3], hp[3])), alpha, delta)

\* C20: distortionHP writes M on the first 32 calls of an epoch only (the
\* magnitude m on the first, the low-pass of m on the next 31); on a later
\* call M is unchanged and the call fires iff |M - m| > delta, returning
\* |M - m| and setting setup to 0; every call, firing or not, stores the
\* sample and the new high-pass output.
C20_ReferenceMagnitude ==
    dut = "distortionHP" =>
        \A v \in FieldVecs, alpha \in Alphas, delta \in Deltas :
            \A r \in {distortionHP(dHP, v[1], v[2], v[3], alpha, delta)} :
            \A hp \in {HighPass(dHP, v, alpha)} :
                MagnitudeRule(dHP, r, v, hp, alpha, delta)

C20_Witness ==
    /\ last.fn = "distortionHP" /\ last.line = 183 /\ last.ret > ONE \div 4
    /\ last.prev = 185
    /\ dHP.setup = 0
    /\ <<dHP.oX, dHP.oY, dHP.oZ>> # VZero

----------------------------------------------------------------------------
(* detectFall: the order of the stages                                     *)

\* a call moved the stage from one value to another
Moved(from, to) == dF.stage = from /\ dF'.stage = to

\* the stage a call may leave behind, and what the call must have seen
StageStep ==
    /\ dF'.stage \in {dF.stage, (dF.stage + 1) % 3}
    /\ last'.ret = dF'.stage
    /\ Moved(STAGE_INIT, STAGE_WEIGHLESSNESS) => fallCall'.M < fallCall'.wThs
    /\ Moved(STAGE_WEIGHLESSNESS, STAGE_FALL) => fallCall'.M > fallCall'.iThs

\* C21: every call of detectFall leaves the stage where it was or one step
\* further in the cycle Init -> Weightlessness -> Fall -> Init, and returns
\* it; the step to Weightlessness is taken by a call with M < wThs and the
\* step to Fall by a later call with M > iThs.
C21_StageOrder == [][StageStep]_vars

C21_Witness ==
    /\ last.fn = "detectFall"
    /\ fallCall.stage = STAGE_INIT
    /\ fallCall.M < fallCall.wThs /\ fallCall.M > fallCall.iThs
    /\ dF.stage = STAGE_WEIGHLESSNESS /\ last.ret = STAGE_WEIGHLESSNESS

\* C22: a call with wThs = 0 and iThs = 0 made in stage Init or
\* Weightlessness leaves the stage unchanged, whatever the sample.
C22_ResetOnlyResets ==
    (last.fn = "detectFall" /\ fallCall.wThs = 0 /\ fallCall.iThs = 0
        /\ fallCall.stage \in {STAGE_INIT, STAGE_WEIGHLESSNESS}) =>
        dF.stage = fallCall.stage

----------------------------------------------------------------------------
(* motionLP and motionK: the decimation counter, up to the largest factor  *)

\* the largest value of the uint8_t parameter sample
SampleMax == 255

WrapSamples == {0, 1, SampleMax}

\* the samples of the next call: the warm-up is fed the resting sample
WrapInputs == IF Setup(dut) < CNTSETUP THEN {VRest} ELSE {VRest, VSide}

InitWrap ==
    /\ InitStatics
    /\ dut \in Decimated
    /\ sample \in WrapSamples
    /\ stream = NoStream
    /\ mix = {}

WrapMotionLP ==
    /\ UNCHANGED stream
    /\ dut = "motionLP"
    /\ \E v \in WrapInputs : CallMotionLP(v[1], v[2], v[3], MixAlpha, MixDelta)

WrapMotionK ==
    /\ UNCHANGED stream
    /\ dut = "motionK"
    /\ \E v \in WrapInputs : CallMotionK(v[1], v[2], v[3], 2, ONE, ONE, MixDelta)

SpecWrap == InitWrap /\ [][WrapMotionLP \/ WrapMotionK]_vars

\* the decimation counter s.smpl between calls
SmplRange(s) ==
    /\ s.smpl \in 0..sample
    /\ s.setup < CNTSETUP => s.smpl = 0

\* the call that led from s to t
SmplStep(s, t) ==
    /\ t.smpl # s.smpl => s.setup = CNTSETUP
    /\ t.smpl \notin {s.smpl + 1, 0} => t = s
    /\ t.smpl = s.smpl + 1 => t.setup = s.setup

\* C23: between calls 0 <= smpl <= sample, and smpl = 0 during warm-up and
\* after every check; smpl changes only on calls made after warm-up, by one
\* step up (leaving setup alone) or back to 0; each check follows exactly
\* `sample` decimated calls, also for sample = 255.
C23_SmplBounded ==
    /\ []((dut = "motionLP" => SmplRange(mLP)) /\ (dut = "motionK" => SmplRange(mK)))
    /\ [](last.line \in CheckLines => (mLP.smpl = 0 /\ mK.smpl = 0 /\ last.skips = sample))
    /\ [](last.line \in SkipLines => last.skips < sample)
    /\ [][SmplStep(mLP, mLP') /\ SmplStep(mK, mK')]_vars

C23_Witness ==
    /\ sample = SampleMax
    /\ last.fn = "motionLP" /\ last.line = 67 /\ last.skips = SampleMax
    /\ mLP.smpl = 0 /\ mLP.setup = 0
    /\ calls["motionLP"] > CNTSETUP + 1

----------------------------------------------------------------------------
(* orientLP: the filter memory                                             *)

\* alpha * s + (1 - alpha) * f_prev on the six filtered components
LowPass6(s, a, m, alpha) ==
    <<LowPass(alpha, a[1], s.aX), LowPass(alpha, a[2], s.aY), LowPass(alpha, a[3], s.aZ),
      LowPass(alpha, m[1], s.mX), LowPass(alpha, m[2], s.mY), LowPass(alpha, m[3], s.mZ)>>

Memory6(s) == <<s.aX, s.aY, s.aZ, s.mX, s.mY, s.mZ>>

\* C24: every call of orientLP after the seeding call leaves in the filter
\* memory exactly the low-pass output of the call, also when it computes
\* pitch, roll and yaw.
C24_MemoryIsLowPass ==
    (dut = "orientLP" /\ oLP.setup > 0) =>
        \A am \in NormPairs, alpha \in OrientAlphas :
            \A r \in {orientLP(oLP, angLP, am[1], am[2], alpha)} :
                Memory6(r.s) = LowPass6(oLP, am[1], am[2], alpha)

----------------------------------------------------------------------------
(* The interrupt example: the main loop and the INT1 callback              *)

\* the most interrupts counted in irq1_ in a run
MaxIrq == 4

\* a ^ b on unsigned values
RECURSIVE Xor(_, _)
Xor(a, b) ==
    IF a = 0 /\ b = 0 THEN 0
    ELSE (((a % 2) + (b % 2)) % 2) + 2 * Xor(a \div 2, b \div 2)

\* everything but the interrupt counter, the main loop, the sink and the driver
algo == <<mLP, mK, dHP, dLP, oLP, oK, iLP, dF, angLP, angK, last, fallCall,
          calls, dut, sample, stream, mix>>

InitIrq ==
    /\ InitStatics
    /\ dut = "interrupt"
    /\ sample = 0
    /\ stream = NoStream
    /\ mix = {}

----------------------------------------------------------------------------
(* The driver: lsm303dlhc.c                                                *)

LSM303_LA_SAD == 50
LSM303_MF_SAD == 60
LSM303_CTRL_REG1_A == 32
LSM303_CTRL_REG3_A == 34
LSM303_CTRL_REG4_A == 35
LSM303_STATUS_REG_A == 39
LSM303_OUT_X_L_A == 40
LSM303_INT1_CFG_A == 48
LSM303_INT1_SRC_A == 49
LSM303_INT1_THS_A == 50
LSM303_INT1_DURATION_A == 51
LSM303_CRA_REG_M == 0
LSM303_CRB_REG_M == 1
LSM303_MR_REG_M == 2
LSM303_OUT_X_H_M == 3
LSM303_SR_REG_M == 9

\* lsm303_alsb is held in units of 1/AlsbUnit
AlsbUnit == 100000

\* the statuses a HAL transfer returns
HalStatus == {"HAL_OK", "HAL_ERROR", "HAL_BUSY", "HAL_TIMEOUT"}

\* the statuses the bus of the examples answers with
BusStatus == {"HAL_OK", "HAL_ERROR"}

\* a transmit of the register address and one value to the device sad
Write(sad, reg, value) ==
    [op |-> "write", sad |-> sad, reg |-> reg, data |-> value]

\* a memory read of len bytes from the register reg of the device sad
Read(sad, reg, len) == [op |-> "read", sad |-> sad, reg |-> reg, len |-> len]

\* what a driver call leaves: its status, the transfers it put on the bus, the
\* driver's globals and the caller's output objects
Driver(ret, bus, g, out) == [ret |-> ret, bus |-> bus, drv |-> g, out |-> out]

\* ret = HAL_I2C_Master_Transmit(...); if (ret != HAL_OK) return ret; repeated
\* n times: the number of the first transfer whose status hal[i] is not HAL_OK,
\* n + 1 when all succeed
FirstFail(n, hal) ==
    CHOOSE i \in 1..(n + 1) :
        /\ i = n + 1 \/ hal[i] # "HAL_OK"
        /\ \A j \in 1..(i - 1) : hal[j] = "HAL_OK"

\* the transfers issued, the failing one included, and the status returned
Issued(xfers, k) == SubSeq(xfers, 1, IF k > Len(xfers) THEN Len(xfers) ELSE k)

Status(xfers, hal, k) == IF k > Len(xfers) THEN "HAL_OK" ELSE hal[k]

\* a1.reg and a4.reg
ctrl_a1(odr, lpe) == 1 + 2 + 4 + 8 * (IF lpe = 0 THEN 0 ELSE 1) + 16 * (odr % 16)

ctrl_a4(hr, fs) == 8 * (IF hr = 0 THEN 0 ELSE 1) + 16 * (fs % 4)

\* the sensitivity the switches on fs assign; no case, no assignment
alsb(lpe, hr, fs, old) ==
    IF hr = 0
    THEN CASE fs = 0 -> IF lpe = 0 THEN 390 ELSE 1563
           [] fs = 1 -> IF lpe = 0 THEN 782 ELSE 3126
           [] fs = 2 -> IF lpe = 0 THEN 1563 ELSE 6252
           [] fs = 3 -> IF lpe = 0 THEN 4690 ELSE 18758
           [] OTHER -> old
    ELSE CASE fs = 0 -> 98
           [] fs = 1 -> 195
           [] fs = 2 -> 390
           [] fs = 3 -> 1172
           [] OTHER -> old

ashift(lpe, hr) == IF hr = 0 THEN (IF lpe = 0 THEN 6 ELSE 8) ELSE 4

la_setup_writes(odr, lpe, hr, fs) ==
    << Write(LSM303_LA_SAD, LSM303_CTRL_REG1_A, ctrl_a1(odr, lpe)),
       Write(LSM303_LA_SAD, LSM303_CTRL_REG4_A, ctrl_a4(hr, fs)) >>

\* uint8_t lsm303_la_setup(i2c, odr, lpe, hr, fs)
lsm303_la_setup_early(i2c, odr, lpe, hr, fs, hal, g) ==
    IF i2c = 0 THEN Driver("HAL_ERROR", <<>>, g, <<>>)
    ELSE Driver(Status(la_setup_writes(odr, lpe, hr, fs), hal, FirstFail(2, hal)),
                Issued(la_setup_writes(odr, lpe, hr, fs), FirstFail(2, hal)),
                [g EXCEPT !.ashift = ashift(lpe, hr),
                          !.alsb = alsb(lpe, hr, fs, @)],
                <<>>)

lsm303_la_setup(i2c, odr, lpe, hr, fs, hal, g) ==
    IF i2c = 0 THEN Driver("HAL_ERROR", <<>>, g, <<>>)
    ELSE IF FirstFail(2, hal) <= 2
    THEN Driver(hal[FirstFail(2, hal)],
                Issued(la_setup_writes(odr, lpe, hr, fs), FirstFail(2, hal)),
                g, <<>>)
    ELSE Driver("HAL_OK", la_setup_writes(odr, lpe, hr, fs),
                [g EXCEPT !.ashift = ashift(lpe, hr),
                          !.alsb = alsb(lpe, hr, fs, @)],
                <<>>)

\* if (threshould > 0x7F) threshould = 0x7F;
Clamp_none(v) == v

Clamp(v) == IF v > 127 THEN 127 ELSE v

la_int1_writes(cfg, threshould, duration) ==
    << Write(LSM303_LA_SAD, LSM303_INT1_CFG_A, cfg),
       Write(LSM303_LA_SAD, LSM303_INT1_THS_A,
             IF cfg = 0 THEN 0 ELSE Clamp(threshould)),
       Write(LSM303_LA_SAD, LSM303_INT1_DURATION_A,
             IF cfg = 0 THEN 0 ELSE Clamp(duration)),
       Write(LSM303_LA_SAD, LSM303_CTRL_REG3_A, IF cfg = 0 THEN 0 ELSE 64) >>

\* uint8_t lsm303_la_int1(i2c, cfg, threshould, duration)
lsm303_la_int1(i2c, cfg, threshould, duration, hal, g) ==
    IF i2c = 0 THEN Driver("HAL_ERROR", <<>>, g, <<>>)
    ELSE Driver(Status(la_int1_writes(cfg, threshould, duration), hal,
                       FirstFail(4, hal)),
                Issued(la_int1_writes(cfg, threshould, duration),
                       FirstFail(4, hal)),
                g, <<>>)

\* a.reg, b.reg and r.reg of lsm303_mf_setup
cra(ten, odr) == 4 * (odr % 8) + 128 * (IF ten = 0 THEN 0 ELSE 1)

crb(gn) == 32 * (gn % 8)

mf_setup_writes(ten, odr, gn, md) ==
    << Write(LSM303_MF_SAD, LSM303_CRA_REG_M, cra(ten, odr)),
       Write(LSM303_MF_SAD, LSM303_CRB_REG_M, crb(gn)),
       Write(LSM303_MF_SAD, LSM303_MR_REG_M, md % 4) >>

\* switch (gn): no case for 0, no assignment
mlsb_xy(gn, old) ==
    CASE gn = 1 -> 1100 [] gn = 2 -> 855 [] gn = 3 -> 670 [] gn = 4 -> 450
      [] gn = 5 -> 400 [] gn = 6 -> 330 [] gn = 7 -> 230 [] OTHER -> old

mlsb_z(gn, old) ==
    CASE gn = 1 -> 980 [] gn = 2 -> 760 [] gn = 3 -> 600 [] gn = 4 -> 400
      [] gn = 5 -> 355 [] gn = 6 -> 295 [] gn = 7 -> 205 [] OTHER -> old

\* uint8_t lsm303_mf_setup(i2c, ten, odr, gn, md)
lsm303_mf_setup(i2c, ten, odr, gn, md, hal, g) ==
    IF i2c = 0 THEN Driver("HAL_ERROR", <<>>, g, <<>>)
    ELSE IF FirstFail(3, hal) <= 3
    THEN Driver(hal[FirstFail(3, hal)],
                Issued(mf_setup_writes(ten, odr, gn, md), FirstFail(3, hal)),
                g, <<>>)
    ELSE Driver("HAL_OK", mf_setup_writes(ten, odr, gn, md),
                [g EXCEPT !.mlsb_xy = mlsb_xy(gn, @), !.mlsb_z = mlsb_z(gn, @)],
                <<>>)

\* the record of a driver call: the handle and the arguments passed, the
\* statuses the bus had for its transfers, what the call left, and the output
\* objects and the globals as they were before it
Called(fn, i2c, args, hal, r, was, old) ==
    [fn |-> fn, i2c |-> i2c, args |-> args, hal |-> hal, ret |-> r.ret,
     bus |-> r.bus, out |-> r.out, was |-> was, old |-> old]

\* (int16_t)(hi << 8 | lo)
Int16(hi, lo) ==
    IF hi * 256 + lo >= 32768 THEN hi * 256 + lo - 65536 ELSE hi * 256 + lo

\* n >> k of a signed n, the sign kept
Shr(n, k) == IF n < 0 THEN 0 - ((2^k - 1 - n) \div 2^k) ELSE n \div 2^k

\* lsm303_buf[0] >> 3 & 1 of STATUS_REG_A and lsm303_buf[0] & 1 of SR_REG_M
Ready_any(status, bit) == TRUE

Ready(status, bit) == (status \div bit) % 2 # 0

la_reads ==
    << Read(LSM303_LA_SAD, LSM303_STATUS_REG_A, 1),
       Read(LSM303_LA_SAD, LSM303_OUT_X_L_A + 128, 6) >>

mf_reads ==
    << Read(LSM303_MF_SAD, LSM303_SR_REG_M, 1),
       Read(LSM303_MF_SAD, LSM303_OUT_X_H_M, 6) >>

\* the status read, the test of the data-ready bit and the data read that the
\* four read functions share.  A transfer that fails is taken to leave
\* lsm303_buf as it was
Acquire(i2c, reads, bit, hal, status, data, g, out) ==
    IF i2c = 0 THEN Driver("HAL_ERROR", <<>>, g, out)
    ELSE IF hal[1] # "HAL_OK" THEN Driver(hal[1], SubSeq(reads, 1, 1), g, out)
    ELSE IF ~Ready(status, bit)
    THEN Driver("HAL_BUSY", SubSeq(reads, 1, 1),
                [g EXCEPT !.buf[1] = status], out)
    ELSE IF hal[2] # "HAL_OK"
    THEN Driver(hal[2], reads, [g EXCEPT !.buf[1] = status], out)
    ELSE Driver("HAL_OK", reads, [g EXCEPT !.buf = data], out)

\* the conversion that follows the data read: *x, *y, *z are assigned
Converted(r, xyz) == IF r.ret = "HAL_OK" THEN [r EXCEPT !.out = xyz] ELSE r

\* (int16_t)(lsm303_buf[1] << 8 | lsm303_buf[0]) >> lsm303_ashift, and y, z
la_counts(g) ==
    << Shr(Int16(g.buf[2], g.buf[1]), g.ashift),
       Shr(Int16(g.buf[4], g.buf[3]), g.ashift),
       Shr(Int16(g.buf[6], g.buf[5]), g.ashift) >>

\* (float)(...) * lsm303_alsb: the count is exact, the product is rounded
la_g(g) ==
    << Rnd(la_counts(g)[1] * g.alsb * ONE, AlsbUnit),
       Rnd(la_counts(g)[2] * g.alsb * ONE, AlsbUnit),
       Rnd(la_counts(g)[3] * g.alsb * ONE, AlsbUnit) >>

\* x from bytes 0 and 1, y from bytes 4 and 5, z from bytes 2 and 3
mf_counts(g) ==
    << Int16(g.buf[1], g.buf[2]), Int16(g.buf[5], g.buf[6]),
       Int16(g.buf[3], g.buf[4]) >>

\* (float)n / lsb * 100.0F; a sensitivity that was never set is 0.0F
PerLsb(n, lsb) ==
    IF lsb = 0 THEN (IF n = 0 THEN NaN ELSE Sgn(n) * PInf)
    ELSE FMul(Rnd(n * ONE, lsb), 100 * ONE)

mf_uT(g) ==
    << PerLsb(mf_counts(g)[1], g.mlsb_xy), PerLsb(mf_counts(g)[2], g.mlsb_xy),
       PerLsb(mf_counts(g)[3], g.mlsb_z) >>

\* uint8_t lsm303_la_raw(i2c, x, y, z)
lsm303_la_raw(i2c, hal, status, data, g, out) ==
    Converted(Acquire(i2c, la_reads, 8, hal, status, data, g, out),
              la_counts([g EXCEPT !.buf = data]))

\* uint8_t lsm303_la_read(i2c, x, y, z)
lsm303_la_read(i2c, hal, status, data, g, out) ==
    Converted(Acquire(i2c, la_reads, 8, hal, status, data, g, out),
              la_g([g EXCEPT !.buf = data]))

\* uint8_t lsm303_mf_raw(i2c, x, y, z)
lsm303_mf_raw(i2c, hal, status, data, g, out) ==
    Converted(Acquire(i2c, mf_reads, 1, hal, status, data, g, out),
              mf_counts([g EXCEPT !.buf = data]))

\* uint8_t lsm303_mf_read(i2c, x, y, z)
lsm303_mf_read(i2c, hal, status, data, g, out) ==
    Converted(Acquire(i2c, mf_reads, 1, hal, status, data, g, out),
              mf_uT([g EXCEPT !.buf = data]))

\* uint8_t lsm303_la_src1(i2c, src): the handle goes unchecked to
\* HAL_I2C_Mem_Read, which reads through it; through a null handle the read
\* of the HAL's state is undefined, and the call may end with any status, with
\* or without a transfer, with or without the byte stored in *src
lsm303_la_src1(i2c, hal, byte, g, out) ==
    IF i2c = 0
    THEN {Driver(st, bus, g, o) :
             st \in HalStatus,
             bus \in {<<>>, <<Read(LSM303_LA_SAD, LSM303_INT1_SRC_A, 1)>>},
             o \in {out, <<byte>>}}
    ELSE {Driver(hal, <<Read(LSM303_LA_SAD, LSM303_INT1_SRC_A, 1)>>, g,
                 IF hal = "HAL_OK" THEN <<byte>> ELSE out)}

\* src.ia
ia(reg) == (reg \div 64) % 2

----------------------------------------------------------------------------
(* main of the interrupt example                                           *)

\* the values read from INT1_SRC_A: nothing, X high without and with IA
SrcBytes == {0, 2, 66}

\* void HAL_GPIO_EXTI_Callback(uint16_t GPIO_Pin): src = { 0 };
\* lsm303_la_src1(&hi2c3, &src.reg); if (src.ia) ++irq1_;
HAL_GPIO_EXTI_Callback(GPIO_Pin, hal, byte) ==
    IF GPIO_Pin = "INT1_Pin"
    THEN \E r \in lsm303_la_src1(1, hal, byte, drv, <<0>>) :
            /\ irq1_' = IF ia(r.out[1]) = 1 THEN Inc8(irq1_) ELSE irq1_
            /\ task' = [task EXCEPT !.pending = @ \/ ia(r.out[1]) = 1]
            /\ io' = Called("lsm303_la_src1", 1, <<>>, <<hal>>, r, <<0>>, drv)
            /\ UNCHANGED <<algo, huart_, drv>>
    ELSE UNCHANGED vars

\* the callback runs between any two steps of the main loop once main has
\* passed its set-up
Interrupt ==
    /\ task.pc \notin {"setup", "halt"}
    /\ irq1_ < MaxIrq
    /\ \E GPIO_Pin \in {"INT1_Pin", "INT2_Pin"}, hal \in BusStatus,
          byte \in SrcBytes :
           HAL_GPIO_EXTI_Callback(GPIO_Pin, hal, byte)


\* cfg.xhe = 1U; cfg.yhe = 1U; cfg.zhe = 1U; cfg.aoi6d = LSM303_AOR;
cfg_reg == 2 + 8 + 32

\* (uint8_t)(0.05F / lsm303_alsb)
threshould(g) == (((5 * AlsbUnit) \div 100) \div g.alsb) % 256

\* T = 1.0F / 400; (uint8_t)(0.05 / T)
duration == (5 * 400) \div 100

\* setlog(&huart1); lsm303_la_setup(&hi2c3, LSM303_ADATARATE_400, 0U, 1U,
\* LSM303_AFS_4G); lsm303_la_int1(&hi2c3, cfg.reg, threshould, duration) with
\* xhe, yhe and zhe set in cfg, threshould = (uint8_t)(0.05F / lsm303_alsb),
\* duration = (uint8_t)(0.05 / T); a failure ends in while (1);
MainSetup ==
    /\ task.pc = "setup"
    /\ setlog(1)
    /\ \E h1 \in [1..2 -> BusStatus], h2 \in [1..4 -> BusStatus] :
          \E r \in {lsm303_la_setup(1, 7, 0, 1, 1, h1, drv)} :
             IF r.ret # "HAL_OK"
             THEN /\ task' = [task EXCEPT !.pc = "halt"]
                  /\ drv' = r.drv
                  /\ io' = Called("lsm303_la_setup", 1, <<7, 0, 1, 1>>, h1, r, <<>>,
                              drv)
             ELSE \E q \in {lsm303_la_int1(1, cfg_reg, threshould(r.drv),
                                           duration, h2, r.drv)} :
                     /\ task' = [task EXCEPT
                                   !.pc = IF q.ret = "HAL_OK" THEN "test" ELSE "halt"]
                     /\ drv' = q.drv
                     /\ io' = Called("lsm303_la_int1", 1,
                                 <<cfg_reg, threshould(r.drv), duration>>,
                                 h2, q, <<>>, r.drv)
    /\ UNCHANGED <<algo, irq1_>>

\* if (irq1_ > 1U)
MainTest ==
    /\ task.pc = "test"
    /\ task' = [task EXCEPT !.pc = IF irq1_ > 1 THEN "lhs" ELSE "test"]
    /\ UNCHANGED <<algo, huart_, drv, io, irq1_>>

\* irq1_ ^= irq1_: the object is volatile, so it is read once for each operand
MainReadLhs ==
    /\ task.pc = "lhs"
    /\ task' = [task EXCEPT !.lhs = irq1_, !.pc = "rhs"]
    /\ UNCHANGED <<algo, huart_, drv, io, irq1_>>

MainReadRhs ==
    /\ task.pc = "rhs"
    /\ task' = [task EXCEPT !.rhs = irq1_, !.pc = "store"]
    /\ UNCHANGED <<algo, huart_, drv, io, irq1_>>

MainStore ==
    /\ task.pc = "store"
    /\ irq1_' = Xor(task.lhs, task.rhs)
    /\ task' = [task EXCEPT !.lhs = 0, !.rhs = 0, !.pc = "report"]
    /\ UNCHANGED <<algo, huart_, drv, io>>

\* xDebug("Interrupt on INT1\n"): printed when there is a sink
MainReport ==
    /\ task.pc = "report"
    /\ task' = [task EXCEPT !.pc = "test",
                            !.pending = IF huart_ # 0 THEN FALSE ELSE @]
    /\ UNCHANGED <<algo, huart_, drv, io, irq1_>>

SpecIrq ==
    InitIrq /\ [][MainSetup \/ MainTest \/ MainReadLhs \/ MainReadRhs
                    \/ MainStore \/ MainReport \/ Interrupt]_vars

\* C25: in the interrupt example the store of irq1_ ^= irq1_ leaves irq1_ equal
\* to 0, also when the INT1 callback runs between two accesses of the main loop
C25_ResetClears ==
    [][(task.pc = "store" /\ task'.pc = "report") => irq1_' = 0]_vars

\* the main loop runs whenever it can take a step: while (1) is never left and
\* nothing but the callback pre-empts it
MainLoop == MainTest \/ MainReadLhs \/ MainReadRhs \/ MainStore \/ MainReport

SpecIrqFair == SpecIrq /\ WF_vars(MainLoop)

\* C26: no active interrupt is lost: every INT1 callback that finds IA set is
\* eventually followed by a report "Interrupt on INT1" of the main loop
C26_NoInterruptLost == task.pending ~> ~task.pending

----------------------------------------------------------------------------
(* The driver called on its own, one device function group per behaviour   *)

\* a null handle and &hi2c3
Handles == {0, 1}

\* the statuses of n successive transfers: all succeed, or the k-th fails (what
\* would follow a failure is never asked for)
Answers(n) ==
    {[i \in 1..n |-> IF i = k THEN st ELSE "HAL_OK"] :
        k \in 1..(n + 1), st \in {"HAL_ERROR", "HAL_TIMEOUT"}}

\* STATUS_REG_A and SR_REG_M values: nothing, DRDY of the magnetometer, ZYXDA
\* of the accelerometer
StatusBytes == {0, 1, 8}

\* two contents of the six output registers
DataBytes == {<<0, 32, 0, 0, 0, 224>>, <<4, 76, 0, 0, 255, 0>>}

\* the caller's x, y, z before a read, and its src before lsm303_la_src1
Before == <<1, 2, 3>>

InitDriver ==
    /\ InitStatics
    /\ dut \in {"la", "mf", "int1"}
    /\ sample = 0
    /\ stream = NoStream
    /\ mix = {}

Returned(fn, i2c, args, hal, r, was) ==
    /\ io' = Called(fn, i2c, args, hal, r, was, drv)
    /\ drv' = r.drv
    /\ UNCHANGED <<algo, huart_, irq1_, task>>

CallLaSetup ==
    /\ dut = "la"
    /\ \E i2c \in Handles, lpe \in {0, 1}, hr \in {0, 1}, fs \in {1, 3},
          hal \in Answers(2) :
          \E r \in {lsm303_la_setup(i2c, 7, lpe, hr, fs, hal, drv)} :
             Returned("lsm303_la_setup", i2c, <<7, lpe, hr, fs>>, hal, r, <<>>)

CallLaRaw ==
    /\ dut = "la"
    /\ \E i2c \in Handles, hal \in [1..2 -> BusStatus], status \in StatusBytes,
          data \in DataBytes :
          \E r \in {lsm303_la_raw(i2c, hal, status, data, drv, Before)} :
             Returned("lsm303_la_raw", i2c, <<status, data>>, hal, r, Before)

CallLaRead ==
    /\ dut = "la"
    /\ \E i2c \in Handles, hal \in [1..2 -> BusStatus], status \in StatusBytes,
          data \in DataBytes :
          \E r \in {lsm303_la_read(i2c, hal, status, data, drv, Before)} :
             Returned("lsm303_la_read", i2c, <<status, data>>, hal, r, Before)

CallMfSetup ==
    /\ dut = "mf"
    /\ \E i2c \in Handles, ten \in {0, 1}, gn \in {0, 1, 7}, hal \in Answers(3) :
          \E r \in {lsm303_mf_setup(i2c, ten, 4, gn, 0, hal, drv)} :
             Returned("lsm303_mf_setup", i2c, <<ten, 4, gn, 0>>, hal, r, <<>>)

CallMfRaw ==
    /\ dut = "mf"
    /\ \E i2c \in Handles, hal \in [1..2 -> BusStatus], status \in StatusBytes,
          data \in DataBytes :
          \E r \in {lsm303_mf_raw(i2c, hal, status, data, drv, Before)} :
             Returned("lsm303_mf_raw", i2c, <<status, data>>, hal, r, Before)

CallMfRead ==
    /\ dut = "mf"
    /\ \E i2c \in Handles, hal \in [1..2 -> BusStatus], status \in StatusBytes,
          data \in DataBytes :
          \E r \in {lsm303_mf_read(i2c, hal, status, data, drv, Before)} :
             Returned("lsm303_mf_read", i2c, <<status, data>>, hal, r, Before)

CallLaInt1 ==
    /\ dut = "int1"
    /\ \E i2c \in Handles, cfg \in {0, cfg_reg}, ths \in {0, 25, 127, 128, 255},
          dur \in {20, 200}, hal \in Answers(4) :
          \E r \in {lsm303_la_int1(i2c, cfg, ths, dur, hal, drv)} :
             Returned("lsm303_la_int1", i2c, <<cfg, ths, dur>>, hal, r, <<>>)

CallLaSrc1 ==
    /\ dut = "int1"
    /\ \E i2c \in Handles, hal \in HalStatus, byte \in SrcBytes :
          \E r \in lsm303_la_src1(i2c, hal, byte, drv, <<Before[1]>>) :
             Returned("lsm303_la_src1", i2c, <<byte>>, <<hal>>, r, <<Before[1]>>)

SpecDriver ==
    InitDriver /\ [][CallLaSetup \/ CallLaRaw \/ CallLaRead \/ CallMfSetup
                       \/ CallMfRaw \/ CallMfRead \/ CallLaInt1 \/ CallLaSrc1]_vars

\* the registers lsm303_la_int1 writes, in the order it writes them
Int1Order ==
    << LSM303_INT1_CFG_A, LSM303_INT1_THS_A, LSM303_INT1_DURATION_A,
       LSM303_CTRL_REG3_A >>

\* the value of the k-th write of a call with the arguments cfg, ths, dur
Int1Value(k, cfg, ths, dur) ==
    CASE k = 1 -> cfg
      [] k = 2 -> IF cfg = 0 THEN 0 ELSE IF ths > 127 THEN 127 ELSE ths
      [] k = 3 -> IF cfg = 0 THEN 0 ELSE IF dur > 127 THEN 127 ELSE dur
      [] OTHER -> IF cfg = 0 THEN 0 ELSE 64

\* C27: lsm303_la_int1 writes INT1_CFG_A, INT1_THS_A, INT1_DURATION_A and
\* CTRL_REG3_A in this order; with cfg = 0 it writes 0 to the first three and
\* CTRL_REG3_A with AOI1 clear, otherwise cfg, the threshold and the duration
\* limited to 0x7F, and CTRL_REG3_A with AOI1 set
C27_Int1Writes ==
    (io.fn = "lsm303_la_int1" /\ io.i2c # 0) =>
        /\ io.ret = "HAL_OK" => Len(io.bus) = 4
        /\ \A k \in 1..Len(io.bus) :
              /\ k <= 4
              /\ io.bus[k].op = "write"
              /\ io.bus[k].sad = LSM303_LA_SAD
              /\ io.bus[k].reg = Int1Order[k]
              /\ io.bus[k].data <= 255
              /\ k \in {2, 3} => io.bus[k].data <= 127
              /\ io.bus[k].data = Int1Value(k, io.args[1], io.args[2], io.args[3])
              /\ k = 4 => ((io.bus[k].data \div 64) % 2 = 1 <=> io.args[1] # 0)

C27_Witness ==
    /\ io.fn = "lsm303_la_int1"
    /\ io.i2c # 0
    /\ io.ret = "HAL_OK"
    /\ io.args[1] # 0
    /\ io.args[2] > 127
    /\ io.args[3] > 127
    /\ io.bus[2].data = 127
    /\ io.bus[3].data = 127
    /\ io.bus[4].data = 64

\* the registers each configuring function writes, in the order it writes them
Order(fn) ==
    CASE fn = "lsm303_la_setup" -> <<LSM303_CTRL_REG1_A, LSM303_CTRL_REG4_A>>
      [] fn = "lsm303_mf_setup" ->
             <<LSM303_CRA_REG_M, LSM303_CRB_REG_M, LSM303_MR_REG_M>>
      [] fn = "lsm303_la_int1" -> Int1Order

\* C28: lsm303_la_setup, lsm303_mf_setup and lsm303_la_int1 issue their writes
\* in a fixed order and return HAL_OK only if every write succeeded; the first
\* transmit that fails ends the call with that status, no write follows it, and
\* lsm303_ashift, lsm303_alsb, lsm303_mlsb_xy and lsm303_mlsb_z are as before
C28_StopAtFirstFailure ==
    (io.fn \in {"lsm303_la_setup", "lsm303_mf_setup", "lsm303_la_int1"}
        /\ io.i2c # 0) =>
        /\ Len(io.bus) <= Len(Order(io.fn))
        /\ \A k \in 1..Len(io.bus) :
              /\ io.bus[k].op = "write"
              /\ io.bus[k].reg = Order(io.fn)[k]
              /\ k < Len(io.bus) => io.hal[k] = "HAL_OK"
        /\ io.ret = "HAL_OK" <=>
              /\ Len(io.bus) = Len(Order(io.fn))
              /\ \A k \in 1..Len(io.bus) : io.hal[k] = "HAL_OK"
        /\ io.ret # "HAL_OK" =>
              /\ io.bus # <<>>
              /\ io.ret = io.hal[Len(io.bus)]
              /\ drv.ashift = io.old.ashift
              /\ drv.alsb = io.old.alsb
              /\ drv.mlsb_xy = io.old.mlsb_xy
              /\ drv.mlsb_z = io.old.mlsb_z

C28_Witness ==
    /\ io.fn = "lsm303_la_setup"
    /\ io.i2c # 0
    /\ io.args = <<7, 1, 0, 3>>
    /\ io.hal = <<"HAL_OK", "HAL_TIMEOUT">>
    /\ io.ret = "HAL_TIMEOUT"
    /\ Len(io.bus) = 2
    /\ drv.ashift = 4
    /\ drv.alsb = alsb(0, 1, 1, 0)

\* C29: every driver function that takes an I2C handle returns HAL_ERROR for a
\* null handle, without a transfer on the bus and without writing its outputs
\* or the driver's globals
C29_NullHandle ==
    (io.fn # "none" /\ io.i2c = 0) =>
        /\ io.ret = "HAL_ERROR"
        /\ io.bus = <<>>
        /\ io.out = io.was
        /\ drv = io.old

----------------------------------------------------------------------------
(* main of the orientation example                                         *)

\* the output registers of a device at rest, Z up, and of a field along X
RestBytes == <<0, 0, 0, 0, 0, 32>>

NorthBytes == <<0, 110, 0, 0, 0, 0>>

InitOrientation ==
    /\ InitStatics
    /\ dut = "orientation"
    /\ sample = 0
    /\ stream = NoStream
    /\ mix = {}

\* setlog(&huart1); lsm303_la_setup(&hi2c3, LSM303_ADATARATE_400, 0U, 1U,
\* LSM303_AFS_4G); lsm303_mf_setup(&hi2c3, 0U, LSM303_MDATARATE_220,
\* LSM303_MGAIN_1_3, LSM303_MMODE_CONTINUOUS); setlog(0); a failure ends in
\* while (1);
OrientationSetup ==
    /\ task.pc = "setup"
    /\ \E h1 \in Answers(2), h2 \in Answers(3) :
          \E r \in {lsm303_la_setup(1, 7, 0, 1, 1, h1, drv)} :
             IF r.ret # "HAL_OK"
             THEN /\ task' = [task EXCEPT !.pc = "halt"]
                  /\ setlog(1)
                  /\ drv' = r.drv
                  /\ io' = Called("lsm303_la_setup", 1, <<7, 0, 1, 1>>, h1, r, <<>>,
                              drv)
             ELSE \E q \in {lsm303_mf_setup(1, 0, 7, 1, 0, h2, r.drv)} :
                     /\ task' = [task EXCEPT
                                   !.pc = IF q.ret = "HAL_OK" THEN "la_read"
                                          ELSE "halt"]
                     /\ setlog(IF q.ret = "HAL_OK" THEN 0 ELSE 1)
                     /\ drv' = q.drv
                     /\ io' = Called("lsm303_mf_setup", 1, <<0, 7, 1, 0>>, h2, q,
                                 <<>>, r.drv)
    /\ UNCHANGED <<algo, irq1_>>

\* if (lsm303_la_read(&hi2c3, &a[0], &a[1], &a[2]) != HAL_OK) continue;
OrientationLaRead ==
    /\ task.pc = "la_read"
    /\ \E hal \in [1..2 -> BusStatus], status \in StatusBytes :
          \E r \in {lsm303_la_read(1, hal, status, RestBytes, drv, task.a)} :
             /\ task' = [task EXCEPT !.a = r.out, !.la = r.ret, !.mf = "none",
                                     !.pc = IF r.ret = "HAL_OK" THEN "mf_read"
                                            ELSE "next"]
             /\ drv' = r.drv
             /\ io' = Called("lsm303_la_read", 1, <<status, RestBytes>>, hal, r,
                         task.a, drv)
    /\ UNCHANGED <<algo, huart_, irq1_>>

\* if (lsm303_mf_read(&hi2c3, &m[0], &m[1], &m[2]) != HAL_OK) continue;
OrientationMfRead ==
    /\ task.pc = "mf_read"
    /\ \E hal \in [1..2 -> BusStatus], status \in StatusBytes :
          \E r \in {lsm303_mf_read(1, hal, status, NorthBytes, drv, task.m)} :
             /\ task' = [task EXCEPT !.m = r.out, !.mf = r.ret,
                                     !.pc = IF r.ret = "HAL_OK" THEN "orient"
                                            ELSE "next"]
             /\ drv' = r.drv
             /\ io' = Called("lsm303_mf_read", 1, <<status, NorthBytes>>, hal, r,
                         task.m, drv)
    /\ UNCHANGED <<algo, huart_, irq1_>>

\* orientLP(a, m, 0.239, &pitchLP, &rollLP, &yawLP);
\* orientK(a, m, 0.1, 1.0, 1.0, &pitchK, &rollK, &yawK);
OrientationFilters ==
    /\ task.pc = "orient"
    /\ \E r \in {orientLP(oLP, angLP, task.a, task.m, Rnd(239 * ONE, 1000))},
          q \in {orientK(oK, angK, task.a, task.m, Rnd(ONE, 10), ONE, ONE)} :
          /\ oLP' = r.s
          /\ angLP' = r.o
          /\ oK' = q.s
          /\ angK' = q.o
          /\ last' = [fn |-> "orientK", ret |-> q.ret, line |-> q.line,
                      prev |-> r.line, skips |-> 0]
          /\ task' = [task EXCEPT !.pc = "next",
                                  !.readyLP = @ \/ r.ret = 0,
                                  !.readyK = @ \/ q.ret = 0]
    /\ calls' = [calls EXCEPT !["orientLP"] = Counted("orientLP")["orientLP"],
                              !["orientK"] = Counted("orientK")["orientK"]]
    /\ UNCHANGED <<mLP, mK, dHP, dLP, iLP, dF, fallCall, dut, sample, stream,
                   mix, huart_, irq1_, drv, io>>

\* ++i; i < CNTSETUP * 2 of for (uint8_t i = 0; i < CNTSETUP * 2; ++i)
OrientationNext ==
    /\ task.pc = "next"
    /\ task' = [task EXCEPT !.pc = IF task.i + 1 < CNTSETUP * 2 THEN "la_read"
                                   ELSE "report",
                            !.la = "none", !.mf = "none", !.i = task.i + 1]
    /\ UNCHANGED <<algo, huart_, irq1_, drv, io>>

\* sprintf and HAL_UART_Transmit of pitchLP, rollLP, yawLP and of pitchK,
\* rollK, yawK, HAL_Delay(100), and the sampling loop again from i = 0
OrientationReport ==
    /\ task.pc = "report"
    /\ task' = [task EXCEPT !.pc = "la_read", !.i = 0]
    /\ UNCHANGED <<algo, huart_, irq1_, drv, io>>

SpecOrientation ==
    InitOrientation /\ [][OrientationSetup \/ OrientationLaRead
                            \/ OrientationMfRead \/ OrientationFilters
                            \/ OrientationNext \/ OrientationReport]_vars

\* a read that is not answered, or finds no data ready, leaves *x, *y, *z alone
ReadRule ==
    io.fn \in {"lsm303_la_read", "lsm303_mf_read"} =>
        /\ io.hal[1] # "HAL_OK" => io.ret = io.hal[1]
        /\ (io.hal[1] = "HAL_OK"
              /\ (io.args[1] \div (IF io.fn = "lsm303_la_read" THEN 8 ELSE 1)) % 2 = 0)
           => io.ret = "HAL_BUSY"
        /\ (io.hal[1] = "HAL_OK"
              /\ (io.args[1] \div (IF io.fn = "lsm303_la_read" THEN 8 ELSE 1)) % 2 = 1)
           => io.ret = io.hal[2]
        /\ io.ret # "HAL_OK" => io.out = io.was

\* after every iteration the two filters have had the same number of calls
PairRule ==
    task.pc \in {"la_read", "mf_read", "next", "report"} =>
        /\ oLP.setup = oK.setup
        /\ calls["orientLP"] = calls["orientK"]

\* the filters are called only after two reads that returned HAL_OK
PairStep ==
    (oLP' # oLP \/ oK' # oK \/ calls' # calls) =>
        /\ task.la = "HAL_OK"
        /\ task.mf = "HAL_OK"
        /\ oLP'.setup = oK'.setup

\* C30: lsm303_la_read and lsm303_mf_read return a status other than HAL_OK,
\* and leave *x, *y, *z unwritten, when the status read fails, when the
\* data-ready bit is clear or when the data read fails; the orientation example
\* calls orientLP and orientK only when both reads returned HAL_OK, and always
\* both, so their warm-up counters are equal after every iteration
C30_ReadsGateFilters == []ReadRule /\ []PairRule /\ [][PairStep]_vars

C30_Witness ==
    /\ task.pc = "next"
    /\ task.la = "HAL_OK"
    /\ task.mf = "HAL_BUSY"
    /\ io.fn = "lsm303_mf_read"
    /\ io.out = io.was
    /\ io.out # mf_uT([drv EXCEPT !.buf = NorthBytes])
    /\ oLP.setup = 0
    /\ oK.setup = 0

\* C31: in the orientation example every report that is transmitted carries
\* computed angles: orientLP and orientK have each returned 0 before it, for
\* every pattern of successful and failed reads in the 64 iterations
C31_ReportsCarryAngles ==
    [][(task.pc = "report" /\ task'.pc # "report") =>
          /\ task.readyLP
          /\ task.readyK
          /\ angLP.pitch # Indet
          /\ angK.pitch # Indet]_vars

----------------------------------------------------------------------------
(* The Kalman filters with every kind of Q, R and E                        *)

\* process noise Q >= 0, measurement noise R > 0 and seed error E >= 0: none,
\* ordinary, the largest finite value, and infinity
KalmanQs == {0, 2, FltMax}

KalmanRs == {ONE, FltMax}

KalmanEs == {0, 8 * ONE, PInf}

\* the device rests while the detector warms up and may move after it
KalmanInputs == IF Setup(dut) < CNTSETUP THEN {VRest} ELSE MotionVecs

InitKalman ==
    /\ InitStatics
    /\ dut \in {"motionK", "orientK"}
    /\ sample = 0
    /\ stream = NoStream
    /\ mix = {}

KalmanMotionK ==
    /\ UNCHANGED stream
    /\ dut = "motionK"
    /\ \E v \in KalmanInputs, Q \in KalmanQs, R \in KalmanRs, E \in KalmanEs :
           CallMotionK(v[1], v[2], v[3], Q, R, E, MixDelta)

KalmanOrientK ==
    /\ UNCHANGED stream
    /\ dut = "orientK"
    /\ \E Q \in KalmanQs, R \in KalmanRs, E \in KalmanEs :
           CallOrientK(VRest, VSide, Q, R, E)

SpecKalman == InitKalman /\ [][KalmanMotionK \/ KalmanOrientK]_vars

\* the per-axis errors and estimates of the two detectors
ErrorsM(s) == {s.eX, s.eY, s.eZ}

ErrorsO(s) == {s.eA[i] : i \in 1..3} \cup {s.eM[i] : i \in 1..3}

\* eX += Q; K = eX / (eX + R): the denominator and the gain of an update
Denominator(e, Q, R) == FAdd(FAdd(e, Q), R)

Gain(e, Q, R) == FDiv(FAdd(e, Q), Denominator(e, Q, R))

\* the first call of an epoch: errors E, no update
SeedRule(first, es, E) == first => es = {E}

\* a later call from the errors es to the errors es1
UpdateRule(first, es, es1, Q, R) ==
    ~first =>
        /\ \E e \in es1 : es1 = {e} /\ FLt(0 - 1, e) /\ FLt(e, R)
        /\ \A e \in es :
              /\ ~FEq(Denominator(e, Q, R), 0)
              /\ FLt(0 - 1, Gain(e, Q, R))
              /\ FLt(Gain(e, Q, R), ONE)

\* C32: in motionK and orientK, with Q >= 0, R > 0 and E >= 0, the first call
\* of an epoch sets every estimate to the measurement and every error to E
\* without an update; after any later call all errors of the detector are the
\* same value in [0, R), the denominator error + R of the gain is never zero
\* and the gain is in [0, 1)
C32_KalmanBounds ==
    /\ \A v \in MotionVecs, Q \in KalmanQs, R \in KalmanRs, E \in KalmanEs :
          \A r \in {motionK(mK, v[1], v[2], v[3], Q, R, E, MixDelta, sample)} :
             /\ mK.setup = 0 => <<r.s.fX, r.s.fY, r.s.fZ>> = v
             /\ SeedRule(mK.setup = 0, ErrorsM(r.s), E)
             /\ UpdateRule(mK.setup = 0, ErrorsM(mK), ErrorsM(r.s), Q, R)
    /\ \A Q \in KalmanQs, R \in KalmanRs, E \in KalmanEs :
          \A r \in {orientK(oK, angK, VRest, VSide, Q, R, E)} :
             /\ oK.setup = 0 => r.s.fA = VRest /\ r.s.fM = VSide
             /\ SeedRule(oK.setup = 0, ErrorsO(r.s), E)
             /\ UpdateRule(oK.setup = 0, ErrorsO(oK), ErrorsO(r.s), Q, R)

\* a later call in rounded arithmetic: while the predicted error e + Q is
\* finite the new error is not negative and not above it, and the gain is in
\* [0, 1]; otherwise the new error is not a number
RoundedRule(first, es, es1, Q, R) ==
    ~first =>
        \E e1 \in es1 :
           /\ es1 = {e1}
           /\ \A e \in es :
                 IF IsFinite(FAdd(e, Q))
                 THEN /\ 0 <= e1
                      /\ e1 <= FAdd(e, Q)
                      /\ ~FEq(Denominator(e, Q, R), 0)
                      /\ 0 <= Gain(e, Q, R)
                      /\ Gain(e, Q, R) <= ONE
                 ELSE IsNaN(e1)

\* C32 as the code has it: the first call of an epoch sets every estimate to
\* the measurement and every error to E without an update; after any later
\* call all errors of the detector are the same value, which lies in
\* [0, error + Q] with a gain in [0, 1] and a denominator that is not zero
\* while error + Q is finite, and is not a number otherwise
C32_KalmanRounded ==
    /\ \A v \in MotionVecs, Q \in KalmanQs, R \in KalmanRs, E \in KalmanEs :
          \A r \in {motionK(mK, v[1], v[2], v[3], Q, R, E, MixDelta, sample)} :
             /\ mK.setup = 0 => <<r.s.fX, r.s.fY, r.s.fZ>> = v
             /\ SeedRule(mK.setup = 0, ErrorsM(r.s), E)
             /\ RoundedRule(mK.setup = 0, ErrorsM(mK), ErrorsM(r.s), Q, R)
    /\ \A Q \in KalmanQs, R \in KalmanRs, E \in KalmanEs :
          \A r \in {orientK(oK, angK, VRest, VSide, Q, R, E)} :
             /\ oK.setup = 0 => r.s.fA = VRest /\ r.s.fM = VSide
             /\ SeedRule(oK.setup = 0, ErrorsO(r.s), E)
             /\ RoundedRule(oK.setup = 0, ErrorsO(oK), ErrorsO(r.s), Q, R)

C32_Witness ==
    /\ last.fn = "motionK"
    /\ last.line = 121
    /\ mK.setup > 1
    /\ ErrorsM(mK) = {FltMax}

====
